---------------------------- MODULE Spec2Model ----------------------------
(***************************************************************************)
(* A model of the ULoRa driver (src/ulora/core.py) for the SX127x LoRa     *)
(* transceiver, together with the part of the chip the driver talks to.    *)
(*                                                                         *)
(* A device is a record                                                    *)
(*    regs                 the chip's register file (address -> byte)      *)
(*    fifo                 the chip's 256 byte FIFO memory                  *)
(*    implicit_header_mode the driver's cache: "None", "True" or "False"   *)
(*    log                  the SPI transfers the driver issued, oldest     *)
(*                         first, each <<address byte, value, response>>   *)
(* Every driver method is an operator from a device (and its arguments)    *)
(* to a device, or to [m |-> device, ret |-> returned value].              *)
(***************************************************************************)
EXTENDS Integers, Sequences, FiniteSets, TLC

(***************************************************************************)
(* Register addresses, modes and masks (core.py 20-91), in decimal.        *)
(***************************************************************************)
REG_FIFO == 0
REG_OP_MODE == 1
REG_FRF_MSB == 6
REG_FRF_MID == 7
REG_FRF_LSB == 8
REG_PA_CONFIG == 9
REG_LNA == 12
REG_FIFO_ADDR_PTR == 13
REG_FIFO_TX_BASE_ADDR == 14
REG_FIFO_RX_BASE_ADDR == 15
REG_FIFO_RX_CURRENT_ADDR == 16
REG_IRQ_FLAGS == 18
REG_RX_NB_BYTES == 19
REG_PKT_SNR_VALUE == 25
REG_PKT_RSSI_VALUE == 26
REG_MODEM_CONFIG_1 == 29
REG_MODEM_CONFIG_2 == 30
REG_PREAMBLE_MSB == 32
REG_PREAMBLE_LSB == 33
REG_PAYLOAD_LENGTH == 34
REG_FIFO_RX_BYTE_ADDR == 37
REG_MODEM_CONFIG_3 == 38
REG_DETECTION_OPTIMIZE == 49
REG_DETECTION_THRESHOLD == 55
REG_SYNC_WORD == 57
REG_VERSION == 66
REG_INVERTIQ == 51
REG_INVERTIQ2 == 59

MODE_LONG_RANGE_MODE == 128
MODE_SLEEP == 0
MODE_STDBY == 1
MODE_TX == 3
MODE_RX_CONTINUOUS == 5
MODE_RX_SINGLE == 6

PA_OUTPUT_RFO_PIN == 0
PA_OUTPUT_PA_BOOST_PIN == 1
PA_BOOST == 128

IRQ_TX_DONE_MASK == 8
IRQ_PAYLOAD_CRC_ERROR_MASK == 32
IRQ_RX_DONE_MASK == 64
IRQ_RX_TIME_OUT_MASK == 128
\* The chip's ValidHeader flag; the driver defines no name for it.
IRQ_VALID_HEADER_MASK == 16

RFLR_INVERTIQ_RX_MASK == 191
RFLR_INVERTIQ_RX_OFF == 0
RFLR_INVERTIQ_RX_ON == 64
RFLR_INVERTIQ_TX_MASK == 254
RFLR_INVERTIQ_TX_OFF == 1
RFLR_INVERTIQ_TX_ON == 0
RFLR_INVERTIQ2_ON == 25
RFLR_INVERTIQ2_OFF == 29

MAX_PKT_LENGTH == 255
FifoTxBaseAddr == 0
FifoRxBaseAddr == 0

\* The chip identification byte the constructor expects (core.py 152).
EXPECTED_VERSION == 18

\* One byte; the FIFO has one cell per byte value of its address pointer.
ByteRange == 256
Byte == 0 .. (ByteRange - 1)

(***************************************************************************)
(* Python's & and | on non-negative integers.                              *)
(***************************************************************************)
RECURSIVE BitAnd(_, _)
BitAnd(a, b) ==
    IF a = 0 \/ b = 0 THEN 0
    ELSE (a % 2) * (b % 2) + 2 * BitAnd(a \div 2, b \div 2)

RECURSIVE BitOr(_, _)
BitOr(a, b) ==
    IF a = 0 THEN b
    ELSE IF b = 0 THEN a
    ELSE (IF a % 2 = 1 \/ b % 2 = 1 THEN 1 ELSE 0) + 2 * BitOr(a \div 2, b \div 2)

RECURSIVE Pow2(_)
Pow2(n) == IF n = 0 THEN 1 ELSE 2 * Pow2(n - 1)

ShiftLeft(a, n) == a * Pow2(n)
ShiftRight(a, n) == a \div Pow2(n)

Min(a, b) == IF a < b THEN a ELSE b
Max(a, b) == IF a > b THEN a ELSE b

\* The statements of a method run one after the other: Bind(e, Rest) is
\* Rest applied to the value of e, with e evaluated once, before Rest.
Bind(e, Rest(_)) == CHOOSE r \in { Rest(x) : x \in {e} } : TRUE

\* Python's bool as the cache stores it.
PyBool(b) == IF b THEN "True" ELSE "False"

(***************************************************************************)
(* The chip behind the SPI bus.                                            *)
(***************************************************************************)
\* The registers the driver reads or writes (REG_FIFO is the FIFO port).
Regs ==
    { REG_OP_MODE, REG_FRF_MSB, REG_FRF_MID, REG_FRF_LSB, REG_PA_CONFIG,
      REG_LNA, REG_FIFO_ADDR_PTR, REG_FIFO_TX_BASE_ADDR,
      REG_FIFO_RX_BASE_ADDR, REG_FIFO_RX_CURRENT_ADDR, REG_IRQ_FLAGS,
      REG_RX_NB_BYTES, REG_PKT_SNR_VALUE, REG_PKT_RSSI_VALUE,
      REG_MODEM_CONFIG_1, REG_MODEM_CONFIG_2, REG_PREAMBLE_MSB,
      REG_PREAMBLE_LSB, REG_PAYLOAD_LENGTH, REG_MODEM_CONFIG_3,
      REG_DETECTION_OPTIMIZE, REG_DETECTION_THRESHOLD, REG_SYNC_WORD,
      REG_VERSION, REG_INVERTIQ, REG_INVERTIQ2, REG_FIFO_RX_BYTE_ADDR }

\* Registers the chip alone sets; a write to them changes nothing.
ReadOnlyRegs ==
    { REG_FIFO_RX_CURRENT_ADDR, REG_RX_NB_BYTES, REG_PKT_SNR_VALUE,
      REG_PKT_RSSI_VALUE, REG_VERSION, REG_FIFO_RX_BYTE_ADDR }

\* What a read of register reg returns.
ChipRead(m, reg) ==
    IF reg = REG_FIFO THEN m.fifo[m.regs[REG_FIFO_ADDR_PTR]]
    ELSE m.regs[reg]

\* The chip after a read: a FIFO read advances the address pointer.
ChipAfterRead(m, reg) ==
    IF reg = REG_FIFO
    THEN [m EXCEPT !.regs[REG_FIFO_ADDR_PTR] = (@ + 1) % ByteRange]
    ELSE m

\* The chip after a write: a FIFO write stores at the address pointer and
\* advances it, a write to the IRQ flags clears the bits written as 1, a
\* switch into a receive mode starts receiving at the RX base address.
ChipAfterWrite(m, reg, value) ==
    IF reg = REG_FIFO
    THEN [m EXCEPT !.fifo[m.regs[REG_FIFO_ADDR_PTR]] = value,
                   !.regs[REG_FIFO_ADDR_PTR] = (@ + 1) % ByteRange]
    ELSE IF reg = REG_IRQ_FLAGS
    THEN [m EXCEPT !.regs[REG_IRQ_FLAGS] = @ - BitAnd(@, value)]
    ELSE IF reg \in ReadOnlyRegs THEN m
    ELSE IF reg = REG_OP_MODE /\ value # m.regs[REG_OP_MODE]
            /\ BitAnd(value, 7) \in {MODE_RX_CONTINUOUS, MODE_RX_SINGLE}
    THEN [m EXCEPT !.regs[REG_OP_MODE] = value,
                   !.regs[REG_FIFO_RX_BYTE_ADDR] = m.regs[REG_FIFO_RX_BASE_ADDR]]
    ELSE [m EXCEPT !.regs[reg] = value]

(***************************************************************************)
(* Low-level SPI methods (core.py 516-550).                                *)
(***************************************************************************)
\* transfer(address, value): chip-select low, the address byte, the data
\* byte, chip-select high.  The address byte's high bit selects a write.
transfer(m, address, value) ==
    LET isWrite == BitAnd(address, 128) # 0
        reg == BitAnd(address, 127)
        response == IF isWrite THEN 0 ELSE ChipRead(m, reg)
        chip == IF isWrite THEN ChipAfterWrite(m, reg, value)
                ELSE ChipAfterRead(m, reg)
    IN [m |-> [chip EXCEPT !.log = Append(@, <<address, value, response>>)],
        ret |-> response]

read_register(m, address) == transfer(m, BitAnd(address, 127), 0)

write_register(m, address, value) == transfer(m, BitOr(address, 128), value).m

(***************************************************************************)
(* Module mode methods (core.py 362-372).                                  *)
(***************************************************************************)
standby(m) == write_register(m, REG_OP_MODE, BitOr(MODE_LONG_RANGE_MODE, MODE_STDBY))

sleep(m) == write_register(m, REG_OP_MODE, BitOr(MODE_LONG_RANGE_MODE, MODE_SLEEP))

(***************************************************************************)
(* Configuration methods (core.py 377-511).                                *)
(***************************************************************************)
\* set_tx_power with the PA-boost level limited to 20 instead of 17.
set_tx_power_wide(m, level, output_pin) ==
    Bind([m EXCEPT !.parameters.tx_power_level = level], LAMBDA m1 :
    IF output_pin = PA_OUTPUT_RFO_PIN
    THEN write_register(m1, REG_PA_CONFIG, BitOr(112, Min(Max(level, 0), 14)))
    ELSE write_register(m1, REG_PA_CONFIG,
                        BitOr(PA_BOOST, Min(Max(level, 2), 20) - 2)))

set_tx_power(m, level, output_pin) ==
    Bind([m EXCEPT !.parameters.tx_power_level = level], LAMBDA m1 :
    IF output_pin = PA_OUTPUT_RFO_PIN
    THEN write_register(m1, REG_PA_CONFIG, BitOr(112, Min(Max(level, 0), 14)))
    ELSE write_register(m1, REG_PA_CONFIG,
                        BitOr(PA_BOOST, Min(Max(level, 2), 17) - 2)))

\* (frequency << 19) // 32000000 in 32-bit arithmetic: 2^19 / 32000000 is
\* 256 / 15625, and with frequency = q * 15625 + r the quotient is
\* q * 256 + (r * 256) // 15625.
\* The register value taken as frequency // 61, the rounded step.
frf_of_coarse(frequency) == frequency \div 61

frf_of(frequency) ==
    (frequency \div 15625) * 256 + ((frequency % 15625) * 256) \div 15625

set_frequency(m, frequency) ==
    Bind(frf_of(frequency + m.parameters.frequency_offset), LAMBDA frf :
    Bind([m EXCEPT !.parameters.frequency = frequency], LAMBDA m1 :
    Bind(write_register(m1, REG_FRF_MSB, BitAnd(ShiftRight(frf, 16), 255)), LAMBDA m2 :
    Bind(write_register(m2, REG_FRF_MID, BitAnd(ShiftRight(frf, 8), 255)), LAMBDA m3 :
    write_register(m3, REG_FRF_LSB, BitAnd(frf, 255))))))

\* set_spreading_factor without the clamp to 6 .. 12.
set_spreading_factor_unclamped(m, sf) ==
    Bind(sf, LAMBDA s :
    Bind(write_register(m, REG_DETECTION_OPTIMIZE, IF s = 6 THEN 197 ELSE 195), LAMBDA m1 :
    Bind(write_register(m1, REG_DETECTION_THRESHOLD, IF s = 6 THEN 12 ELSE 10), LAMBDA m2 :
    Bind(read_register(m2, REG_MODEM_CONFIG_2), LAMBDA r :
    write_register(r.m, REG_MODEM_CONFIG_2,
                   BitOr(BitAnd(r.ret, 15), BitAnd(ShiftLeft(s, 4), 240)))))))

set_spreading_factor(m, sf) ==
    Bind(Min(Max(sf, 6), 12), LAMBDA s :
    Bind(write_register(m, REG_DETECTION_OPTIMIZE, IF s = 6 THEN 197 ELSE 195), LAMBDA m1 :
    Bind(write_register(m1, REG_DETECTION_THRESHOLD, IF s = 6 THEN 12 ELSE 10), LAMBDA m2 :
    Bind(read_register(m2, REG_MODEM_CONFIG_2), LAMBDA r :
    write_register(r.m, REG_MODEM_CONFIG_2,
                   BitOr(BitAnd(r.ret, 15), BitAnd(ShiftLeft(s, 4), 240)))))))

\* The predefined bandwidth bins (core.py 428).
bins == <<7800, 10400, 15600, 20800, 31250, 41700, 62500, 125000, 250000>>

\* The for loop of set_signal_bandwidth from entry i (1-based here, the
\* code's index is i - 1): the first bin with sbw <= bin, or the default 7.
RECURSIVE FirstBin(_, _)
FirstBin(sbw, i) ==
    IF i > Len(bins) THEN 7
    ELSE IF sbw <= bins[i] THEN i - 1
    ELSE FirstBin(sbw, i + 1)

\* The bin index set_signal_bandwidth selects; sbw is an integer here, so
\* int(sbw) is sbw.
bw_index(sbw) == IF sbw < 10 THEN sbw ELSE FirstBin(sbw, 1)

\* A variant that rewrites the whole low nibble but bit 0.
set_signal_bandwidth_drop_header(m, sbw) ==
    Bind(read_register(m, REG_MODEM_CONFIG_1), LAMBDA r :
    write_register(r.m, REG_MODEM_CONFIG_1,
                   BitOr(BitAnd(r.ret, 14), ShiftLeft(bw_index(sbw), 4))))

set_signal_bandwidth(m, sbw) ==
    Bind(read_register(m, REG_MODEM_CONFIG_1), LAMBDA r :
    write_register(r.m, REG_MODEM_CONFIG_1,
                   BitOr(BitAnd(r.ret, 15), ShiftLeft(bw_index(sbw), 4))))

\* set_coding_rate keeping only the top nibble of what it read.
set_coding_rate_top_only(m, denominator) ==
    Bind(Min(Max(denominator, 5), 8) - 4, LAMBDA cr :
    Bind(read_register(m, REG_MODEM_CONFIG_1), LAMBDA r :
    write_register(r.m, REG_MODEM_CONFIG_1,
                   BitOr(BitAnd(r.ret, 240), ShiftLeft(cr, 1)))))

set_coding_rate(m, denominator) ==
    Bind(Min(Max(denominator, 5), 8) - 4, LAMBDA cr :
    Bind(read_register(m, REG_MODEM_CONFIG_1), LAMBDA r :
    write_register(r.m, REG_MODEM_CONFIG_1,
                   BitOr(BitAnd(r.ret, 241), ShiftLeft(cr, 1)))))

set_preamble_length(m, length) ==
    Bind(write_register(m, REG_PREAMBLE_MSB, BitAnd(ShiftRight(length, 8), 255)), LAMBDA m1 :
    write_register(m1, REG_PREAMBLE_LSB, BitAnd(length, 255)))

enable_crc(m, enable) ==
    Bind(read_register(m, REG_MODEM_CONFIG_2), LAMBDA r :
    write_register(r.m, REG_MODEM_CONFIG_2,
                   IF enable THEN BitOr(r.ret, 4) ELSE BitAnd(r.ret, 251)))

invert_iq(m, invert) ==
    Bind([m EXCEPT !.parameters.invert_IQ = invert], LAMBDA m1 :
    Bind(read_register(m1, REG_INVERTIQ), LAMBDA r :
    Bind(BitAnd(BitAnd(r.ret, RFLR_INVERTIQ_TX_MASK), RFLR_INVERTIQ_RX_MASK), LAMBDA masked :
    IF invert
    THEN Bind(write_register(r.m, REG_INVERTIQ,
                  BitOr(BitOr(masked, RFLR_INVERTIQ_RX_ON), RFLR_INVERTIQ_TX_ON)), LAMBDA m2 :
         write_register(m2, REG_INVERTIQ2, RFLR_INVERTIQ2_ON))
    ELSE Bind(write_register(r.m, REG_INVERTIQ,
                  BitOr(BitOr(masked, RFLR_INVERTIQ_RX_OFF), RFLR_INVERTIQ_TX_OFF)), LAMBDA m2 :
         write_register(m2, REG_INVERTIQ2, RFLR_INVERTIQ2_OFF)))))

set_sync_word(m, sw) == write_register(m, REG_SYNC_WORD, sw)

\* A set_implicit_header that does not consult the cache.
set_implicit_header_uncached(m, implicit) ==
    Bind([m EXCEPT !.implicit_header_mode = PyBool(implicit)], LAMBDA m1 :
    Bind(read_register(m1, REG_MODEM_CONFIG_1), LAMBDA r :
    write_register(r.m, REG_MODEM_CONFIG_1,
                   IF implicit THEN BitOr(r.ret, 1) ELSE BitAnd(r.ret, 254))))

\* implicit is a Python bool; the cache starts as None, which differs from both.
set_implicit_header(m, implicit) ==
    IF m.implicit_header_mode # PyBool(implicit)
    THEN Bind([m EXCEPT !.implicit_header_mode = PyBool(implicit)], LAMBDA m1 :
         Bind(read_register(m1, REG_MODEM_CONFIG_1), LAMBDA r :
         write_register(r.m, REG_MODEM_CONFIG_1,
                        IF implicit THEN BitOr(r.ret, 1) ELSE BitAnd(r.ret, 254))))
    ELSE m

(***************************************************************************)
(* Packet transmission methods (core.py 205-261).                          *)
(***************************************************************************)
\* A begin_packet that leaves the FIFO pointer where it is.
begin_packet_keep_pointer(m, implicit_header) ==
    Bind(standby(m), LAMBDA m1 :
    Bind(IF implicit_header # "None"
         THEN set_implicit_header(m1, implicit_header = "True")
         ELSE m1, LAMBDA m2 :
    write_register(m2, REG_PAYLOAD_LENGTH, 0)))

\* A begin_packet that resets the payload length before the FIFO pointer.
begin_packet_length_first(m, implicit_header) ==
    Bind(standby(m), LAMBDA m1 :
    Bind(IF implicit_header # "None"
         THEN set_implicit_header(m1, implicit_header = "True")
         ELSE m1, LAMBDA m2 :
    Bind(write_register(m2, REG_PAYLOAD_LENGTH, 0), LAMBDA m3 :
    write_register(m3, REG_FIFO_ADDR_PTR, FifoTxBaseAddr))))

\* implicit_header is "None" (no override), "True" or "False".
begin_packet(m, implicit_header) ==
    Bind(standby(m), LAMBDA m1 :
    Bind(IF implicit_header # "None"
         THEN set_implicit_header(m1, implicit_header = "True")
         ELSE m1, LAMBDA m2 :
    Bind(write_register(m2, REG_FIFO_ADDR_PTR, FifoTxBaseAddr), LAMBDA m3 :
    write_register(m3, REG_PAYLOAD_LENGTH, 0))))

\* for byte in buffer: write_register(REG_FIFO, byte).  The Len(buffer)
\* transfers are taken in one step: byte i lands in cell (pointer + i - 1)
\* mod 256, the last byte written to a cell stays, the pointer ends
\* Len(buffer) further, and the log gains one FIFO write per byte, in order.
write_bytes(m, buffer) ==
    LET n == Len(buffer)
        first == m.regs[REG_FIFO_ADDR_PTR]
        stored == [a \in Byte |->
                     LET k == (a - first + ByteRange) % ByteRange
                     IN IF k + 1 > n THEN m.fifo[a]
                        ELSE buffer[k + 1 + ByteRange * ((n - k - 1) \div ByteRange)]]
        writes == [i \in 1 .. n |-> <<BitOr(REG_FIFO, 128), buffer[i], 0>>]
    IN [m EXCEPT !.fifo = stored,
                 !.regs[REG_FIFO_ADDR_PTR] = (first + n) % ByteRange,
                 !.log = @ \o writes]

\* A write that accepts every byte it is given.
write_unclamped(m, buffer) ==
    Bind(read_register(m, REG_PAYLOAD_LENGTH), LAMBDA r :
    Bind(write_bytes(r.m, buffer), LAMBDA m1 :
    [m |-> write_register(m1, REG_PAYLOAD_LENGTH, r.ret + Len(buffer)),
     ret |-> Len(buffer)]))

write(m, buffer) ==
    Bind(read_register(m, REG_PAYLOAD_LENGTH), LAMBDA r :
    Bind(r.ret, LAMBDA current_length :
    Bind(Min(Len(buffer), MAX_PKT_LENGTH - FifoTxBaseAddr - current_length), LAMBDA size :
    Bind(write_bytes(r.m, buffer), LAMBDA m1 :
    [m |-> write_register(m1, REG_PAYLOAD_LENGTH, current_length + size),
     ret |-> size]))))

\* end_packet up to its wait loop: the TX mode write (core.py 240).
end_packet_start(m) ==
    write_register(m, REG_OP_MODE, BitOr(MODE_LONG_RANGE_MODE, MODE_TX))

\* A wait loop that is left after one read, whatever it returned.
end_packet_poll_once(m) ==
    Bind(read_register(m, REG_IRQ_FLAGS), LAMBDA r : [m |-> r.m, ret |-> TRUE])

\* One evaluation of the wait loop's condition (core.py 242): ret is TRUE
\* when the loop is left.
end_packet_poll(m) ==
    Bind(read_register(m, REG_IRQ_FLAGS), LAMBDA r :
    [m |-> r.m, ret |-> BitAnd(r.ret, IRQ_TX_DONE_MASK) # 0])

\* end_packet after its wait loop: the clearing write (core.py 245).
end_packet_clear(m) == write_register(m, REG_IRQ_FLAGS, IRQ_TX_DONE_MASK)

\* str.encode(): UTF-8 of a sequence of code points below 2048 (the
\* sequence is halved to keep the evaluation shallow).
RECURSIVE encode(_)
encode(message) ==
    IF message = <<>> THEN <<>>
    ELSE IF Len(message) = 1
    THEN LET c == message[1]
         IN IF c < 128 THEN <<c>> ELSE <<192 + (c \div 64), 128 + (c % 64)>>
    ELSE LET h == Len(message) \div 2
         IN encode(SubSeq(message, 1, h)) \o encode(SubSeq(message, h + 1, Len(message)))

(***************************************************************************)
(* Packet reception methods (core.py 266-339).                             *)
(***************************************************************************)
get_irq_flags(m) ==
    Bind(read_register(m, REG_IRQ_FLAGS), LAMBDA r :
    [m |-> write_register(r.m, REG_IRQ_FLAGS, r.ret), ret |-> r.ret])

receive(m, size) ==
    Bind(set_implicit_header(m, size > 0), LAMBDA m1 :
    Bind(IF size > 0
         THEN write_register(m1, REG_PAYLOAD_LENGTH, BitAnd(size, 255))
         ELSE m1, LAMBDA m2 :
    write_register(m2, REG_OP_MODE, BitOr(MODE_LONG_RANGE_MODE, MODE_RX_CONTINUOUS))))

\* The comparison that decides whether a packet was received (core.py 303).
rx_done(irq_flags) == irq_flags = IRQ_RX_DONE_MASK

\* received_packet re-arming single receive on every false return, whatever
\* OpMode reads.
received_packet_eager(m, size) ==
    Bind(get_irq_flags(m), LAMBDA g :
    Bind(set_implicit_header(g.m, size > 0), LAMBDA m1 :
    Bind(IF size > 0
         THEN write_register(m1, REG_PAYLOAD_LENGTH, BitAnd(size, 255))
         ELSE m1, LAMBDA m2 :
    IF rx_done(g.ret)
    THEN [m |-> m2, ret |-> TRUE]
    ELSE Bind(read_register(m2, REG_OP_MODE), LAMBDA r :
         Bind(write_register(r.m, REG_FIFO_ADDR_PTR, FifoRxBaseAddr), LAMBDA m3 :
              [m |-> write_register(m3, REG_OP_MODE,
                                    BitOr(MODE_LONG_RANGE_MODE, MODE_RX_SINGLE)),
               ret |-> FALSE])))))

\* A variant that leaves the header mode as the last call set it.
received_packet_keep_header(m, size) ==
    Bind(get_irq_flags(m), LAMBDA g :
    Bind(IF size > 0
         THEN write_register(g.m, REG_PAYLOAD_LENGTH, BitAnd(size, 255))
         ELSE g.m, LAMBDA m2 :
    IF rx_done(g.ret)
    THEN [m |-> m2, ret |-> TRUE]
    ELSE Bind(read_register(m2, REG_OP_MODE), LAMBDA r :
         IF r.ret # BitOr(MODE_LONG_RANGE_MODE, MODE_RX_SINGLE)
         THEN Bind(write_register(r.m, REG_FIFO_ADDR_PTR, FifoRxBaseAddr), LAMBDA m3 :
              [m |-> write_register(m3, REG_OP_MODE,
                                    BitOr(MODE_LONG_RANGE_MODE, MODE_RX_SINGLE)),
               ret |-> FALSE])
         ELSE [m |-> r.m, ret |-> FALSE])))

received_packet(m, size) ==
    Bind(get_irq_flags(m), LAMBDA g :
    Bind(set_implicit_header(g.m, size > 0), LAMBDA m1 :
    Bind(IF size > 0
         THEN write_register(m1, REG_PAYLOAD_LENGTH, BitAnd(size, 255))
         ELSE m1, LAMBDA m2 :
    IF rx_done(g.ret)
    THEN [m |-> m2, ret |-> TRUE]
    ELSE Bind(read_register(m2, REG_OP_MODE), LAMBDA r :
         IF r.ret # BitOr(MODE_LONG_RANGE_MODE, MODE_RX_SINGLE)
         THEN Bind(write_register(r.m, REG_FIFO_ADDR_PTR, FifoRxBaseAddr), LAMBDA m3 :
              [m |-> write_register(m3, REG_OP_MODE,
                                    BitOr(MODE_LONG_RANGE_MODE, MODE_RX_SINGLE)),
               ret |-> FALSE])
         ELSE [m |-> r.m, ret |-> FALSE]))))

\* for _ in range(n): payload.append(read_register(REG_FIFO)); ret is the
\* payload.  The n transfers are taken in one step: read i returns cell
\* (pointer + i - 1) mod 256, the pointer ends n further, and the log gains
\* one FIFO read per byte, in order.
read_bytes(m, n) ==
    LET first == m.regs[REG_FIFO_ADDR_PTR]
        payload == [i \in 1 .. n |-> m.fifo[(first + i - 1) % ByteRange]]
        reads == [i \in 1 .. n |-> <<BitAnd(REG_FIFO, 127), 0, payload[i]>>]
    IN [m |-> [m EXCEPT !.regs[REG_FIFO_ADDR_PTR] = (first + n) % ByteRange,
                        !.log = @ \o reads],
        ret |-> payload]

\* read_payload taking the length from RxNbBytes whatever the header mode.
read_payload_nb_bytes(m) ==
    Bind(read_register(m, REG_FIFO_RX_CURRENT_ADDR), LAMBDA a :
    Bind(write_register(a.m, REG_FIFO_ADDR_PTR, a.ret), LAMBDA m1 :
    Bind(read_register(m1, REG_RX_NB_BYTES), LAMBDA packet_length :
    read_bytes(packet_length.m, packet_length.ret))))

read_payload(m) ==
    Bind(read_register(m, REG_FIFO_RX_CURRENT_ADDR), LAMBDA a :
    Bind(write_register(a.m, REG_FIFO_ADDR_PTR, a.ret), LAMBDA m1 :
    Bind(IF m1.implicit_header_mode = "True"
         THEN read_register(m1, REG_PAYLOAD_LENGTH)
         ELSE read_register(m1, REG_RX_NB_BYTES), LAMBDA packet_length :
    read_bytes(packet_length.m, packet_length.ret))))

\* packet_rssi(high_frequency): the register value minus 157 or 164.
packet_rssi(m, high_frequency) ==
    Bind(read_register(m, REG_PKT_RSSI_VALUE), LAMBDA rssi :
    [m |-> rssi.m, ret |-> rssi.ret - (IF high_frequency THEN 157 ELSE 164)])

\* packet_snr(): read_register(REG_PKT_SNR_VALUE) * 0.25, a float.  ret is
\* that float counted in quarters: ret quarters of a dB is ret * 0.25 dB.
\* read_register returns int.from_bytes(response, 'big'), which is never
\* negative.
packet_snr(m) ==
    Bind(read_register(m, REG_PKT_SNR_VALUE), LAMBDA snr :
    [m |-> snr.m, ret |-> snr.ret])

(***************************************************************************)
(* Chip events: what the radio does on its own between SPI transfers.      *)
(***************************************************************************)
Mode(m) == BitAnd(m.regs[REG_OP_MODE], 7)

\* The bytes the chip sends in TX mode: PayloadLength bytes from the TX base.
AirPacket(m) ==
    [i \in 1 .. m.regs[REG_PAYLOAD_LENGTH] |->
        m.fifo[(m.regs[REG_FIFO_TX_BASE_ADDR] + i - 1) % ByteRange]]

\* Transmission complete: TxDone is latched and the chip falls to Standby.
ChipTxDone(m) ==
    [m EXCEPT !.regs[REG_IRQ_FLAGS] = BitOr(@, IRQ_TX_DONE_MASK),
              !.regs[REG_OP_MODE] = BitOr(MODE_LONG_RANGE_MODE, MODE_STDBY)]

\* A packet arrives: its bytes go to the FIFO from the receive write pointer,
\* RxCurrent points at its first byte, RxNbBytes is its length, RxDone and
\* the flags latched with it are set, single receive falls to Standby.
ChipRxDone(m, packet, extra) ==
    LET first == m.regs[REG_FIFO_RX_BYTE_ADDR]
        n == Len(packet)
        stored == [a \in Byte |->
                     LET k == (a - first + ByteRange) % ByteRange
                     IN IF k < n THEN packet[k + 1] ELSE m.fifo[a]]
    IN [m EXCEPT !.fifo = stored,
                 !.regs[REG_FIFO_RX_CURRENT_ADDR] = first,
                 !.regs[REG_FIFO_RX_BYTE_ADDR] = (first + n) % ByteRange,
                 !.regs[REG_RX_NB_BYTES] = n,
                 !.regs[REG_IRQ_FLAGS] = BitOr(BitOr(@, IRQ_RX_DONE_MASK), extra),
                 !.regs[REG_OP_MODE] =
                     IF Mode(m) = MODE_RX_SINGLE
                     THEN BitOr(MODE_LONG_RANGE_MODE, MODE_STDBY) ELSE @]

\* Single receive found no preamble: RxTimeout is latched, back to Standby.
ChipRxTimeout(m) ==
    [m EXCEPT !.regs[REG_IRQ_FLAGS] = BitOr(@, IRQ_RX_TIME_OUT_MASK),
              !.regs[REG_OP_MODE] = BitOr(MODE_LONG_RANGE_MODE, MODE_STDBY)]

\* The chip measures a packet: it latches the packet's RSSI and SNR.
ChipMeasure(m, rssi, snr) ==
    [m EXCEPT !.regs[REG_PKT_RSSI_VALUE] = rssi,
              !.regs[REG_PKT_SNR_VALUE] = snr]

\* The register file after the hardware reset of reset_module (the LoRa
\* page's reset values), and an empty FIFO.
ChipReset ==
    [r \in Regs |->
        CASE r = REG_OP_MODE -> 9
          [] r = REG_FRF_MSB -> 108
          [] r = REG_FRF_MID -> 128
          [] r = REG_PA_CONFIG -> 79
          [] r = REG_LNA -> 32
          [] r = REG_FIFO_TX_BASE_ADDR -> 128
          [] r = REG_MODEM_CONFIG_1 -> 114
          [] r = REG_MODEM_CONFIG_2 -> 112
          [] r = REG_PREAMBLE_LSB -> 8
          [] r = REG_PAYLOAD_LENGTH -> 1
          [] r = REG_DETECTION_OPTIMIZE -> 195
          [] r = REG_DETECTION_THRESHOLD -> 10
          [] r = REG_SYNC_WORD -> 18
          [] r = REG_VERSION -> EXPECTED_VERSION
          [] r = REG_INVERTIQ -> 39
          [] r = REG_INVERTIQ2 -> 29
          [] OTHER -> 0]

(***************************************************************************)
(* Construction (core.py 96-188).                                          *)
(***************************************************************************)
DEFAULT_PARAMETERS ==
    [frequency |-> 433000000, frequency_offset |-> 0, tx_power_level |-> 10,
     signal_bandwidth |-> 125000, spreading_factor |-> 9, coding_rate |-> 5,
     preamble_length |-> 8, implicitHeader |-> FALSE, sync_word |-> 18,
     enable_CRC |-> TRUE, invert_IQ |-> FALSE]

\* The object before the version check: the chip just reset, nothing cached.
NewDevice(parameters) ==
    [regs |-> ChipReset, fifo |-> [a \in Byte |-> 0],
     implicit_header_mode |-> "None", log |-> <<>>, parameters |-> parameters]

\* The version check reading all 5 times, whatever the reads return.
RECURSIVE version_probe_all(_, _, _)
version_probe_all(m, answers, k) ==
    Bind(read_register([m EXCEPT !.regs[REG_VERSION] = answers[k]], REG_VERSION), LAMBDA r :
    IF k = 5 THEN r
    ELSE version_probe_all(r.m, answers, k + 1))

\* The version check (core.py 146-150): up to 5 reads, leaving the loop at
\* the first read that is not 0; answers[k] is what the chip answers to the
\* k-th read.  ret is the last value read.
RECURSIVE version_probe(_, _, _)
version_probe(m, answers, k) ==
    Bind(read_register([m EXCEPT !.regs[REG_VERSION] = answers[k]], REG_VERSION), LAMBDA r :
    IF r.ret # 0 \/ k = 5 THEN r
    ELSE version_probe(r.m, answers, k + 1))

\* 1000 / bw / 2 ** sf > 16 for bw # 0 and sf >= 0, without the division
\* and within 32 bits: bw > 0 and bw * 2 ** sf < 62.5.  (bw = 0 raises
\* ZeroDivisionError: see configure.)
low_data_rate(bw, sf) == bw > 0 /\ bw <= 62 /\ 2 * bw * Pow2(sf) < 125

\* The configuration the constructor applies once the version matched
\* (core.py 158-188).  raised tells that the constructor ended in an
\* exception instead: 1000 / bw raises ZeroDivisionError when the
\* signal_bandwidth parameter is 0, after the IQ setup and before the FIFO
\* base addresses.
configure(m) ==
    Bind(m.parameters, LAMBDA p :
    Bind(sleep(m), LAMBDA m1 :
    Bind(set_frequency(m1, p.frequency), LAMBDA m2 :
    Bind(set_signal_bandwidth(m2, p.signal_bandwidth), LAMBDA m3 :
    Bind(read_register(m3, REG_LNA), LAMBDA l :
    Bind(write_register(l.m, REG_LNA, BitOr(l.ret, 3)), LAMBDA m4 :
    Bind(write_register(m4, REG_MODEM_CONFIG_3, 4), LAMBDA m5 :
    Bind(set_tx_power(m5, p.tx_power_level, PA_OUTPUT_PA_BOOST_PIN), LAMBDA m6 :
    Bind(set_implicit_header(m6, p.implicitHeader), LAMBDA m7 :
    Bind(set_spreading_factor(m7, p.spreading_factor), LAMBDA m8 :
    Bind(set_coding_rate(m8, p.coding_rate), LAMBDA m9 :
    Bind(set_preamble_length(m9, p.preamble_length), LAMBDA m10 :
    Bind(set_sync_word(m10, p.sync_word), LAMBDA m11 :
    Bind(enable_crc(m11, p.enable_CRC), LAMBDA m12 :
    Bind(invert_iq(m12, p.invert_IQ), LAMBDA m13 :
    IF p.signal_bandwidth = 0
    THEN [m |-> m13, raised |-> TRUE]
    ELSE
    Bind(IF low_data_rate(p.signal_bandwidth, p.spreading_factor)
         THEN Bind(read_register(m13, REG_MODEM_CONFIG_3), LAMBDA c :
              write_register(c.m, REG_MODEM_CONFIG_3, BitOr(c.ret, 8)))
         ELSE m13, LAMBDA m14 :
    Bind(write_register(m14, REG_FIFO_TX_BASE_ADDR, FifoTxBaseAddr), LAMBDA m15 :
    Bind(write_register(m15, REG_FIFO_RX_BASE_ADDR, FifoRxBaseAddr), LAMBDA m16 :
    [m |-> standby(m16), raised |-> FALSE]))))))))))))))))))

\* __init__: ret is TRUE when the constructor returns; when it does not,
\* raised tells whether it ended in an exception (TRUE) or in
\* machine.reset() (FALSE), which restarts the host and does not return.
construct(parameters, answers) ==
    Bind(version_probe(NewDevice(parameters), answers, 1), LAMBDA v :
    IF v.ret # EXPECTED_VERSION
    THEN [m |-> v.m, ret |-> FALSE, raised |-> FALSE]
    ELSE Bind(configure(v.m), LAMBDA c :
         [m |-> c.m, ret |-> ~c.raised, raised |-> c.raised]))

(***************************************************************************)
(* The state machine.                                                      *)
(*   dev        the device under study                                     *)
(*   peer       a second device, the receiving end of dev's transmissions  *)
(*   pc         where the driver is: "failed" (the constructor ended in    *)
(*              machine.reset()), "raised" (the constructor ended in an    *)
(*              exception), "idle" (constructed, no call in progress),     *)
(*              "tx_wait" (in end_packet's wait loop),                     *)
(*              "listen_poll" / "listen_check" (in listen's loop, before   *)
(*              received_packet / before the timeout test)                 *)
(*   call, ret  the public call in progress or last completed, and what    *)
(*              it returned; dev.log holds the transfers of that call      *)
(*              (of the last poll iteration, inside listen)                *)
(*   pre        the cache and the registers when that call started         *)
(*   accepted   the sum of what write returned since the last              *)
(*              begin_packet, -1 before the first begin_packet             *)
(*   nwrites, bracket  the write calls since the last begin_packet: how    *)
(*              many, and their buffers                                    *)
(*   remaining  the end_packet calls println still has to make             *)
(*   polls      the IRQ polls of this call that found TxDone clear         *)
(*   air        the packet dev's chip sent last, until the next call: its  *)
(*              bytes, its header mode, and the writes it was built from   *)
(*   peerGot, peerRet  the packet the peer's chip received, and what the   *)
(*              peer's read_payload returned                               *)
(*   again      whether the call repeats the call before it (the same      *)
(*              operation with the same arguments)                         *)
(*   prevLog    the transfers of the call before it, kept when again       *)
(*   bus        the SPI bus below transfer: the chip-select level, the     *)
(*              bytes clocked so far, what the chip makes of them, and     *)
(*              where each caller stands inside transfer                   *)
(***************************************************************************)
VARIABLES dev, peer, pc, call, ret, pre, again, prevLog,
          accepted, nwrites, bracket, remaining, polls, air,
          peerGot, peerRet,
          now, start, timeout, delivered, rxPacket, bus

callVars == <<call, ret, pre, again, prevLog>>
txVars == <<accepted, nwrites, bracket, remaining, polls, air>>
peerVars == <<peer, peerGot, peerRet>>
rxVars == <<start, timeout, delivered, rxPacket>>
vars == <<dev, pc, callVars, txVars, peerVars, now, rxVars, bus>>

(***************************************************************************)
(* Bounds of the model.                                                    *)
(***************************************************************************)
\* write calls between two begin_packet calls
MaxWrites == 2
\* longest buffer handed to write
MaxBufLen == 257
\* IRQ polls of one call that find TxDone clear
MaxPolls == 1
\* largest repeat argument of println
MaxRepeat == 2
\* the millisecond clock stops here
MaxClock == 4
\* largest timeout handed to listen
MaxTimeout == 2
\* packets the chip receives in one behaviour
MaxPackets == 1

\* register transactions started in one behaviour of the bus
MaxTransfers == 3

\* What a call returned: Python's None, or a value.
NoValue == [none |-> TRUE, val |-> 0]
Value(v) == [none |-> FALSE, val |-> v]

\* A stand-in for "no value" of the ghost variables.
NoCall == [op |-> "none"]
NoPacket == [valid |-> FALSE, data |-> <<>>, implicit |-> FALSE,
             begun |-> FALSE, bracket |-> <<>>]

\* A chip that answers every version read with the expected byte.
GoodAnswers == [k \in 1 .. 5 |-> EXPECTED_VERSION]

\* A constructed device, its log emptied.
Constructed(parameters) ==
    Bind(construct(parameters, GoodAnswers), LAMBDA c : [c.m EXCEPT !.log = <<>>])

\* The device as a public call finds it: the log starts empty.
Fresh(m) == [m EXCEPT !.log = <<>>]

Snapshot(m) == [implicit_header_mode |-> m.implicit_header_mode, regs |-> m.regs]

\* The threads of the application that may call into the one driver object.
Callers == {1, 2}

\* A caller outside transfer.
IdleCaller == [pc |-> "idle", op |-> "none", address |-> 0, value |-> 0,
               response |-> 0, expect |-> NoValue]

\* The bus at rest: chip-select high, nothing clocked.  serialized says
\* whether the application lets only one caller at a time into the driver.
IdleBus(serialized) ==
    [ss |-> 1, phase |-> "idle", addr |-> 0, wire |-> <<>>,
     serialized |-> serialized, started |-> 0,
     callers |-> [t \in Callers |-> IdleCaller]]

Init ==
    /\ dev = Constructed(DEFAULT_PARAMETERS)
    /\ peer = Bind(Constructed(DEFAULT_PARAMETERS), LAMBDA c : Fresh(receive(c, 0)))
    /\ pc = "idle"
    /\ call = NoCall /\ ret = NoValue /\ again = FALSE /\ prevLog = <<>>
    /\ pre = Snapshot(dev)
    /\ accepted = -1 /\ nwrites = 0 /\ bracket = <<>> /\ remaining = 0
    /\ polls = 0 /\ air = NoPacket
    /\ peerGot = NoPacket /\ peerRet = NoValue
    /\ now = 0 /\ start = 0 /\ timeout = 0 /\ delivered = 0
    /\ rxPacket = <<>>
    /\ bus = IdleBus(TRUE)

\* A public call c starts: it must find the driver idle.
Enter(c) ==
    /\ pc = "idle"
    /\ call' = c
    /\ again' = (c = call)
    /\ prevLog' = IF c = call THEN dev.log ELSE <<>>
    /\ pre' = Snapshot(dev)

(***************************************************************************)
(* Configuration calls.                                                    *)
(***************************************************************************)
Bandwidths == {0, 8, 9, 10, 7800, 7801, 125000, 250000, 250001}
SpreadingFactors == {5, 6, 7, 12, 13}
CodingRates == {4, 5, 8, 9}

SetImplicitHeader ==
    \E x \in BOOLEAN :
        /\ Enter([op |-> "set_implicit_header", implicit |-> x])
        /\ dev' = set_implicit_header(Fresh(dev), x)
        /\ ret' = NoValue
        /\ UNCHANGED <<pc, txVars, peerVars, now, rxVars, bus>>

SetSignalBandwidth ==
    \E sbw \in Bandwidths :
        /\ Enter([op |-> "set_signal_bandwidth", sbw |-> sbw])
        /\ dev' = set_signal_bandwidth(Fresh(dev), sbw)
        /\ ret' = NoValue
        /\ UNCHANGED <<pc, txVars, peerVars, now, rxVars, bus>>

SetCodingRate ==
    \E d \in CodingRates :
        /\ Enter([op |-> "set_coding_rate", denominator |-> d])
        /\ dev' = set_coding_rate(Fresh(dev), d)
        /\ ret' = NoValue
        /\ UNCHANGED <<pc, txVars, peerVars, now, rxVars, bus>>

SetSpreadingFactor ==
    \E sf \in SpreadingFactors :
        /\ Enter([op |-> "set_spreading_factor", sf |-> sf])
        /\ dev' = set_spreading_factor(Fresh(dev), sf)
        /\ ret' = NoValue
        /\ UNCHANGED <<pc, txVars, peerVars, now, rxVars, bus>>

EnableCrc ==
    \E e \in BOOLEAN :
        /\ Enter([op |-> "enable_crc", enable |-> e])
        /\ dev' = enable_crc(Fresh(dev), e)
        /\ ret' = NoValue
        /\ UNCHANGED <<pc, txVars, peerVars, now, rxVars, bus>>

NextCfg ==
    \/ SetImplicitHeader
    \/ SetSignalBandwidth
    \/ SetCodingRate
    \/ SetSpreadingFactor
    \/ EnableCrc

SpecCfg == Init /\ [][NextCfg]_vars

(***************************************************************************)
(* Construction, and the bandwidth and spreading factor calls after it.    *)
(***************************************************************************)
\* What the chip may answer to a read of the version register: nothing,
\* another chip's identification, the expected identification.
VersionBytes == {0, 17, EXPECTED_VERSION}
VersionAnswers == [1 .. 5 -> VersionBytes]

\* The parameters handed to the constructor, merged onto the defaults:
\* bandwidths as bin index and in Hz, spreading factors below and inside
\* the range, both header modes.
ParameterChoices ==
    { [DEFAULT_PARAMETERS EXCEPT !.signal_bandwidth = bw,
                                 !.spreading_factor = sf,
                                 !.implicitHeader = ih] :
        bw \in {0, 1, 7800, 125000}, sf \in {5, 9}, ih \in BOOLEAN }

\* The state after ULoRa(spi, pins, parameters) ran on a chip that answers
\* the version reads with answers: pc tells how the constructor ended, and
\* dev.log holds every transfer it made.
InitConstruct ==
    /\ \E parameters \in ParameterChoices, answers \in VersionAnswers :
          \E c \in {construct(parameters, answers)} :
            /\ dev = c.m
            /\ pc = IF c.ret THEN "idle" ELSE IF c.raised THEN "raised" ELSE "failed"
            /\ call = [op |-> "__init__", parameters |-> parameters,
                       answers |-> answers]
            /\ pre = Snapshot(NewDevice(parameters))
    /\ peer = Bind(Constructed(DEFAULT_PARAMETERS), LAMBDA c : Fresh(receive(c, 0)))
    /\ ret = NoValue /\ again = FALSE /\ prevLog = <<>>
    /\ accepted = -1 /\ nwrites = 0 /\ bracket = <<>> /\ remaining = 0
    /\ polls = 0 /\ air = NoPacket
    /\ peerGot = NoPacket /\ peerRet = NoValue
    /\ now = 0 /\ start = 0 /\ timeout = 0 /\ delivered = 0
    /\ rxPacket = <<>>
    /\ bus = IdleBus(TRUE)

\* The calls made on the constructed device.
NextConstruct ==
    \/ SetSignalBandwidth
    \/ SetSpreadingFactor

SpecConstruct == InitConstruct /\ [][NextConstruct]_vars

(***************************************************************************)
(* Transmission power calls.                                               *)
(***************************************************************************)
\* Levels below, inside and above both clamping ranges, and far outside.
Levels == (-3 .. 20) \cup {-1000, 1000}
OutputPins == {PA_OUTPUT_RFO_PIN, PA_OUTPUT_PA_BOOST_PIN}

SetTxPower ==
    \E level \in Levels, output_pin \in OutputPins :
        /\ Enter([op |-> "set_tx_power", level |-> level, output_pin |-> output_pin])
        /\ dev' = set_tx_power(Fresh(dev), level, output_pin)
        /\ ret' = NoValue
        /\ UNCHANGED <<pc, txVars, peerVars, now, rxVars, bus>>

NextPower == SetTxPower

SpecPower == Init /\ [][NextPower]_vars

(***************************************************************************)
(* Frequency calls, on a device constructed with any of a few frequency    *)
(* offsets.                                                                *)
(***************************************************************************)
\* The band edges of the chip, the usual carriers, and frequencies one Hz
\* and one step away from a multiple of the step.
Frequencies ==
    {137000000, 433000000, 433000001, 433000061, 433000062, 868100000,
     915000000, 1019999999, 1020000000}
FrequencyOffsets == {-50, 0, 7}

InitFrequency ==
    /\ \E offset \in FrequencyOffsets :
          dev = Constructed([DEFAULT_PARAMETERS EXCEPT !.frequency_offset = offset])
    /\ peer = Bind(Constructed(DEFAULT_PARAMETERS), LAMBDA c : Fresh(receive(c, 0)))
    /\ pc = "idle"
    /\ call = NoCall /\ ret = NoValue /\ again = FALSE /\ prevLog = <<>>
    /\ pre = Snapshot(dev)
    /\ accepted = -1 /\ nwrites = 0 /\ bracket = <<>> /\ remaining = 0
    /\ polls = 0 /\ air = NoPacket
    /\ peerGot = NoPacket /\ peerRet = NoValue
    /\ now = 0 /\ start = 0 /\ timeout = 0 /\ delivered = 0
    /\ rxPacket = <<>>
    /\ bus = IdleBus(TRUE)

SetFrequency ==
    \E frequency \in Frequencies :
        /\ Enter([op |-> "set_frequency", frequency |-> frequency])
        /\ dev' = set_frequency(Fresh(dev), frequency)
        /\ ret' = NoValue
        /\ UNCHANGED <<pc, txVars, peerVars, now, rxVars, bus>>

NextFrequency == SetFrequency

SpecFrequency == InitFrequency /\ [][NextFrequency]_vars

(***************************************************************************)
(* Transmission calls.                                                     *)
(***************************************************************************)
\* A buffer of n bytes, no two of its first 256 bytes alike.
Buf(n) == [i \in 1 .. n |-> (7 + 3 * i) % ByteRange]

BufLens == {100, MAX_PKT_LENGTH, MaxBufLen}
Buffers == { Buf(n) : n \in BufLens }

\* println's messages: str (code points) or bytes.
Messages ==
    { [kind |-> "str", data |-> <<72, 233>>],
      [kind |-> "bytes", data |-> [i \in 1 .. MaxBufLen |-> 65 + (i % 26)]] }

HeaderOverrides == {"None", "True", "False"}

BeginPacket ==
    \E h \in HeaderOverrides :
        /\ Enter([op |-> "begin_packet", implicit_header |-> h])
        /\ dev' = begin_packet(Fresh(dev), h)
        /\ ret' = NoValue
        /\ accepted' = 0 /\ nwrites' = 0 /\ bracket' = <<>>
        /\ air' = NoPacket
        /\ UNCHANGED <<pc, remaining, polls, peerVars, now, rxVars, bus>>

Write ==
    \E buffer \in Buffers :
        /\ nwrites < MaxWrites
        /\ Enter([op |-> "write", buffer |-> buffer])
        /\ \E r \in {write(Fresh(dev), buffer)} :
              /\ dev' = r.m
              /\ ret' = Value(r.ret)
              /\ accepted' = IF accepted >= 0 THEN accepted + r.ret ELSE accepted
        /\ nwrites' = nwrites + 1
        /\ bracket' = Append(bracket, buffer)
        /\ air' = NoPacket
        /\ UNCHANGED <<pc, remaining, polls, peerVars, now, rxVars, bus>>

\* end_packet is called: the TX mode write, then the wait loop.
EndPacket ==
    /\ Enter([op |-> "end_packet"])
    /\ dev' = end_packet_start(Fresh(dev))
    /\ ret' = NoValue
    /\ pc' = "tx_wait"
    /\ remaining' = 0 /\ polls' = 0
    /\ air' = NoPacket
    /\ UNCHANGED <<accepted, nwrites, bracket, peerVars, now, rxVars, bus>>

\* println is called: begin_packet, write, and the first of repeat
\* end_packet calls up to its wait loop.
Println ==
    \E message \in Messages, h \in HeaderOverrides, repeat \in 0 .. MaxRepeat :
        /\ Enter([op |-> "println", message |-> message,
                  implicit_header |-> h, repeat |-> repeat])
        /\ \E data \in {IF message.kind = "str" THEN encode(message.data)
                          ELSE message.data} :
           \E m1 \in {begin_packet(Fresh(dev), h)} :
           \E w \in {write(m1, data)} :
              /\ dev' = IF repeat > 0 THEN end_packet_start(w.m) ELSE w.m
              /\ accepted' = w.ret
              /\ bracket' = <<data>>
        /\ ret' = NoValue
        /\ nwrites' = 1
        /\ pc' = IF repeat > 0 THEN "tx_wait" ELSE "idle"
        /\ remaining' = IF repeat > 0 THEN repeat - 1 ELSE 0
        /\ polls' = 0
        /\ air' = NoPacket
        /\ UNCHANGED <<peerVars, now, rxVars, bus>>

\* One turn of end_packet's wait loop.  When TxDone is read as set the flag
\* is cleared and end_packet returns; println then makes its next
\* end_packet call, if one remains.
EndPacketPoll ==
    /\ pc = "tx_wait"
    /\ \E p \in {end_packet_poll(dev)} :
          IF p.ret
          THEN \E m1 \in {end_packet_clear(p.m)} :
               IF remaining > 0
               THEN /\ dev' = end_packet_start(m1)
                    /\ remaining' = remaining - 1
                    /\ UNCHANGED <<pc, polls>>
               ELSE /\ dev' = m1
                    /\ pc' = "idle"
                    /\ UNCHANGED <<remaining, polls>>
          ELSE /\ polls < MaxPolls
               /\ dev' = p.m
               /\ polls' = polls + 1
               /\ UNCHANGED <<pc, remaining>>
    /\ UNCHANGED <<callVars, accepted, nwrites, bracket, air, peerVars, now, rxVars, bus>>

\* The chip finishes the transmission it was told to make.
TxDone ==
    /\ Mode(dev) = MODE_TX
    /\ dev' = ChipTxDone(dev)
    /\ air' = [valid |-> TRUE, data |-> AirPacket(dev),
               implicit |-> BitAnd(dev.regs[REG_MODEM_CONFIG_1], 1) = 1,
               begun |-> accepted >= 0, bracket |-> bracket]
    /\ UNCHANGED <<pc, callVars, accepted, nwrites, bracket, remaining, polls,
                   peerVars, now, rxVars, bus>>

\* Packets built call by call.
NextTx ==
    \/ BeginPacket
    \/ Write
    \/ EndPacket
    \/ EndPacketPoll
    \/ TxDone

SpecTx == Init /\ [][NextTx]_vars

\* The chip answers: a transmission that was started completes, and the
\* driver's wait loop keeps running.
LiveSpecTx == SpecTx /\ WF_vars(TxDone) /\ WF_vars(EndPacketPoll)

\* Packets sent with println.
NextPrintln ==
    \/ Println
    \/ EndPacketPoll
    \/ TxDone

SpecPrintln == Init /\ [][NextPrintln]_vars

(***************************************************************************)
(* The receiving peer of a transmission.                                   *)
(***************************************************************************)
\* The peer's chip receives the packet on air, with its header: the sender
\* and the peer are both in explicit header mode.
PeerRxDone ==
    /\ air.valid
    /\ ~air.implicit
    /\ BitAnd(peer.regs[REG_MODEM_CONFIG_1], 1) = 0
    /\ peerGot = NoPacket
    /\ Mode(peer) \in {MODE_RX_CONTINUOUS, MODE_RX_SINGLE}
    /\ peer' = ChipRxDone(peer, air.data, IRQ_VALID_HEADER_MASK)
    /\ peerGot' = air
    /\ air' = NoPacket
    /\ UNCHANGED <<dev, pc, callVars, accepted, nwrites, bracket, remaining,
                   polls, peerRet, now, rxVars, bus>>

\* The peer calls read_payload once its chip reports RxDone.
PeerReadPayload ==
    /\ peerGot.valid
    /\ peerRet.none
    /\ BitAnd(peer.regs[REG_IRQ_FLAGS], IRQ_RX_DONE_MASK) # 0
    /\ \E r \in {read_payload(Fresh(peer))} :
          /\ peer' = r.m
          /\ peerRet' = Value(r.ret)
    /\ UNCHANGED <<dev, pc, callVars, txVars, peerGot, now, rxVars, bus>>

\* A sender and its peer up to the first packet the peer receives.
NextRoundTrip ==
    \/ (peerGot = NoPacket /\ NextTx)
    \/ PeerRxDone
    \/ PeerReadPayload

SpecRoundTrip == Init /\ [][NextRoundTrip]_vars

(***************************************************************************)
(* Reception calls.                                                        *)
(***************************************************************************)
\* The size arguments of receive and received_packet.
Sizes == {0, 2}

\* The packets the chip receives, and the flags it latches with RxDone.
RxPackets == { <<17, 34>>, <<51, 68, 85>> }
RxFlags == {0, IRQ_VALID_HEADER_MASK, IRQ_PAYLOAD_CRC_ERROR_MASK,
            IRQ_VALID_HEADER_MASK + IRQ_PAYLOAD_CRC_ERROR_MASK}

\* A loop that gives up when the limit is reached.
timed_out_at_limit(ticks, started, limit) == ticks - started >= limit

\* if ticks_ms() - start > timeout (core.py 289)
timed_out(ticks, started, limit) == ticks - started > limit

Receive ==
    \E size \in Sizes :
        /\ Enter([op |-> "receive", size |-> size])
        /\ dev' = receive(Fresh(dev), size)
        /\ ret' = NoValue
        /\ UNCHANGED <<pc, txVars, peerVars, now, rxVars, bus>>

ReceivedPacket ==
    \E size \in Sizes :
        /\ Enter([op |-> "received_packet", size |-> size])
        /\ \E r \in {received_packet(Fresh(dev), size)} :
              /\ dev' = r.m
              /\ ret' = Value(r.ret)
        /\ UNCHANGED <<pc, txVars, peerVars, now, rxVars, bus>>

ReadPayload ==
    /\ Enter([op |-> "read_payload"])
    /\ \E r \in {read_payload(Fresh(dev))} :
          /\ dev' = r.m
          /\ ret' = Value(r.ret)
    /\ UNCHANGED <<pc, txVars, peerVars, now, rxVars, bus>>

\* listen is called: receive(), then start = ticks_ms().
Listen ==
    \E t \in 0 .. MaxTimeout :
        /\ now + t + 1 <= MaxClock
        /\ Enter([op |-> "listen", timeout |-> t])
        /\ dev' = receive(Fresh(dev), 0)
        /\ ret' = NoValue
        /\ pc' = "listen_poll"
        /\ start' = now
        /\ timeout' = t
        /\ UNCHANGED <<txVars, peerVars, now, delivered, rxPacket, bus>>

\* One turn of listen's loop, first half: if self.received_packet():
\* return self.read_payload().  dev.log holds the transfers of this turn.
ListenPoll ==
    /\ pc = "listen_poll"
    /\ \E r \in {received_packet(Fresh(dev), 0)} :
          IF r.ret
          THEN \E p \in {read_payload(r.m)} :
                  /\ dev' = p.m
                  /\ ret' = Value(p.ret)
                  /\ pc' = "idle"
          ELSE /\ dev' = r.m
               /\ pc' = "listen_check"
               /\ ret' = ret
    /\ UNCHANGED <<call, pre, again, prevLog, txVars, peerVars, now, rxVars, bus>>

\* Second half: if ticks_ms() - start > timeout: return None.
ListenCheck ==
    /\ pc = "listen_check"
    /\ pc' = IF timed_out(now, start, timeout) THEN "idle" ELSE "listen_poll"
    /\ UNCHANGED <<dev, callVars, txVars, peerVars, now, rxVars, bus>>

\* The millisecond clock advances while listen runs.
Tick ==
    /\ pc \in {"listen_poll", "listen_check"}
    /\ now < MaxClock
    /\ now' = now + 1
    /\ UNCHANGED <<dev, pc, callVars, txVars, peerVars, rxVars, bus>>

\* The chip receives a packet while it is in a receive mode.
RxDone ==
    \E packet \in RxPackets, extra \in RxFlags :
        /\ Mode(dev) \in {MODE_RX_CONTINUOUS, MODE_RX_SINGLE}
        /\ delivered < MaxPackets
        /\ dev' = ChipRxDone(dev, packet, extra)
        /\ delivered' = delivered + 1
        /\ rxPacket' = packet
        /\ UNCHANGED <<pc, callVars, txVars, peerVars, now, start, timeout, bus>>

\* Single receive ends without a packet.
RxTimeout ==
    /\ Mode(dev) = MODE_RX_SINGLE
    /\ dev' = ChipRxTimeout(dev)
    /\ UNCHANGED <<pc, callVars, txVars, peerVars, now, rxVars, bus>>

\* Reception call by call.
NextRx ==
    \/ Receive
    \/ ReceivedPacket
    \/ ReadPayload
    \/ RxDone
    \/ RxTimeout

SpecRx == Init /\ [][NextRx]_vars

\* Reception with listen.
NextListen ==
    \/ Listen
    \/ ListenPoll
    \/ ListenCheck
    \/ Tick
    \/ RxDone
    \/ RxTimeout

SpecListen == Init /\ [][NextListen]_vars

\* listen against a chip that never reports RxDone, under a clock that
\* keeps advancing and a loop that keeps running.
NextQuiet ==
    \/ Listen
    \/ ListenPoll
    \/ ListenCheck
    \/ Tick
    \/ RxTimeout

LiveSpecQuiet ==
    /\ Init /\ [][NextQuiet]_vars
    /\ WF_vars(Tick) /\ WF_vars(ListenPoll) /\ WF_vars(ListenCheck)

(***************************************************************************)
(* The calls that write the operating mode, in any order.                  *)
(***************************************************************************)
Standby ==
    /\ Enter([op |-> "standby"])
    /\ dev' = standby(Fresh(dev))
    /\ ret' = NoValue
    /\ UNCHANGED <<pc, txVars, peerVars, now, rxVars, bus>>

Sleep ==
    /\ Enter([op |-> "sleep"])
    /\ dev' = sleep(Fresh(dev))
    /\ ret' = NoValue
    /\ UNCHANGED <<pc, txVars, peerVars, now, rxVars, bus>>

\* What the chip does on its own when no packet arrives.
ChipStep == TxDone \/ RxTimeout

NextModes ==
    \/ Standby
    \/ Sleep
    \/ BeginPacket
    \/ EndPacket
    \/ EndPacketPoll
    \/ Receive
    \/ ReceivedPacket
    \/ ChipStep

SpecModes == Init /\ [][NextModes]_vars

\* The calls that write ModemConfig1 or the cached header mode, in any
\* order.
NextHeader ==
    \/ SetImplicitHeader
    \/ SetSignalBandwidth
    \/ SetCodingRate
    \/ BeginPacket
    \/ Receive
    \/ ReceivedPacket

SpecHeader == Init /\ [][NextHeader]_vars

(***************************************************************************)
(* Signal quality calls.                                                   *)
(***************************************************************************)
\* Register values at both ends of the byte range, on both sides of the
\* sign bit, and the values of the documented scenario.
SignalBytes == {0, 40, 100, 127, 128, 255}

Measure ==
    \E rssi \in SignalBytes, snr \in SignalBytes :
        /\ pc = "idle"
        /\ dev' = ChipMeasure(dev, rssi, snr)
        /\ UNCHANGED <<pc, callVars, txVars, peerVars, now, rxVars, bus>>

PacketRssi ==
    \E high_frequency \in BOOLEAN :
        /\ Enter([op |-> "packet_rssi", high_frequency |-> high_frequency])
        /\ \E r \in {packet_rssi(Fresh(dev), high_frequency)} :
              /\ dev' = r.m
              /\ ret' = Value(r.ret)
        /\ UNCHANGED <<pc, txVars, peerVars, now, rxVars, bus>>

PacketSnr ==
    /\ Enter([op |-> "packet_snr"])
    /\ \E r \in {packet_snr(Fresh(dev))} :
          /\ dev' = r.m
          /\ ret' = Value(r.ret)
    /\ UNCHANGED <<pc, txVars, peerVars, now, rxVars, bus>>

NextSignal ==
    \/ Measure
    \/ PacketRssi
    \/ PacketSnr

SpecSignal == Init /\ [][NextSignal]_vars

(***************************************************************************)
(* transfer, statement by statement (core.py 535-550).  Nothing in the     *)
(* driver keeps a second caller out while a first one is between two       *)
(* statements: self.lock (core.py 142) is set and never read.              *)
(*                                                                         *)
(* The chip frames a register access by chip-select: the first byte after  *)
(* the falling edge is the address, every further byte is data for that    *)
(* address (which advances, except at the FIFO), and bytes clocked while   *)
(* chip-select is high are ignored.                                        *)
(***************************************************************************)
\* What the chip does with one byte clocked on the bus.
chip_byte(b, m, byte) ==
    IF b.ss = 1
    THEN [bus |-> b, m |-> m, ret |-> 0, floating |-> TRUE]
    ELSE IF b.phase = "address"
    THEN [bus |-> [b EXCEPT !.phase = "data", !.addr = byte],
          m |-> m, ret |-> 0, floating |-> FALSE]
    ELSE LET reg == BitAnd(b.addr, 127)
             r == IF reg \in Regs \cup {REG_FIFO}
                  THEN transfer(m, b.addr, byte)
                  ELSE [m |-> m, ret |-> 0]
             next == IF reg = REG_FIFO THEN b.addr
                     ELSE BitAnd(b.addr, 128) + ((reg + 1) % 128)
         IN [bus |-> [b EXCEPT !.addr = next],
             m |-> r.m, ret |-> r.ret, floating |-> FALSE]

\* The address byte read_register and write_register hand to transfer.
address_byte(c) ==
    IF c.op = "read_register" THEN BitAnd(c.address, 127)
    ELSE BitOr(c.address, 128)

\* self.pin_ss.value(0): caller t enters transfer for the call c.
transfer_select(b, t, c, m) ==
    [b EXCEPT !.ss = 0,
              !.phase = IF b.ss = 1 THEN "address" ELSE @,
              !.started = @ + 1,
              !.callers[t] =
                  [pc |-> "selected", op |-> c.op,
                   address |-> address_byte(c), value |-> c.value,
                   response |-> 0,
                   expect |-> Value(transfer(m, address_byte(c), c.value))]]

\* A variant that lets chip-select go after the address byte.
transfer_address_release(b, t, m) ==
    Bind(chip_byte(b, m, b.callers[t].address), LAMBDA c :
        [bus |-> [c.bus EXCEPT
                     !.ss = 1, !.phase = "idle",
                     !.wire = Append(@, [caller |-> t, kind |-> "address",
                                         op |-> b.callers[t].op,
                                         byte |-> b.callers[t].address,
                                         ss |-> b.ss]),
                     !.callers[t].pc = "addressed"],
         m |-> c.m])

\* self.spi.write(bytes([address]))
transfer_address(b, t, m) ==
    Bind(chip_byte(b, m, b.callers[t].address), LAMBDA c :
        [bus |-> [c.bus EXCEPT
                     !.wire = Append(@, [caller |-> t, kind |-> "address",
                                         op |-> b.callers[t].op,
                                         byte |-> b.callers[t].address,
                                         ss |-> b.ss]),
                     !.callers[t].pc = "addressed"],
         m |-> c.m])

\* self.spi.write_readinto(bytes([value]), response): the byte read is the
\* chip's answer, or whatever the undriven line holds (floats).
transfer_data(b, t, m, floats) ==
    Bind(chip_byte(b, m, b.callers[t].value), LAMBDA c :
        [bus |-> [c.bus EXCEPT
                     !.wire = Append(@, [caller |-> t, kind |-> "data",
                                         op |-> b.callers[t].op,
                                         byte |-> b.callers[t].value,
                                         ss |-> b.ss]),
                     !.callers[t].pc = "answered",
                     !.callers[t].response =
                         IF c.floating THEN floats ELSE c.ret],
         m |-> c.m])

\* self.pin_ss.value(1); return response
transfer_deselect(b, t) ==
    [b EXCEPT !.ss = 1, !.phase = "idle", !.callers[t].pc = "idle"]

\* The register calls the callers make.
BusCalls ==
    { [op |-> "read_register", address |-> REG_VERSION, value |-> 0],
      [op |-> "write_register", address |-> REG_SYNC_WORD, value |-> REG_IRQ_FLAGS] }

\* What an undriven data line may read as.
Floating == {0, 255}

InitBus ==
    /\ dev = Constructed(DEFAULT_PARAMETERS)
    /\ peer = Bind(Constructed(DEFAULT_PARAMETERS), LAMBDA c : Fresh(receive(c, 0)))
    /\ pc = "idle"
    /\ call = NoCall /\ ret = NoValue /\ again = FALSE /\ prevLog = <<>>
    /\ pre = Snapshot(dev)
    /\ accepted = -1 /\ nwrites = 0 /\ bracket = <<>> /\ remaining = 0
    /\ polls = 0 /\ air = NoPacket
    /\ peerGot = NoPacket /\ peerRet = NoValue
    /\ now = 0 /\ start = 0 /\ timeout = 0 /\ delivered = 0
    /\ rxPacket = <<>>
    /\ \E serialized \in BOOLEAN : bus = IdleBus(serialized)

busFrame == <<pc, callVars, txVars, peerVars, now, rxVars>>

\* A caller enters transfer.  Serialized callers wait for each other;
\* nothing in the driver makes them.
TransferSelect ==
    \E t \in Callers :
        /\ bus.callers[t].pc = "idle"
        /\ bus.started < MaxTransfers
        /\ bus.serialized => \A u \in Callers : bus.callers[u].pc = "idle"
        /\ \E c \in BusCalls :
              bus' = transfer_select(bus, t, c, dev)
        /\ UNCHANGED <<dev, busFrame>>

TransferAddress ==
    \E t \in Callers :
        /\ bus.callers[t].pc = "selected"
        /\ \E r \in {transfer_address(bus, t, dev)} :
              /\ bus' = r.bus
              /\ dev' = r.m
        /\ UNCHANGED busFrame

TransferData ==
    \E t \in Callers :
        /\ bus.callers[t].pc = "addressed"
        /\ \E floats \in (IF bus.ss = 1 THEN Floating ELSE {0}) :
              \E r \in {transfer_data(bus, t, dev, floats)} :
                  /\ bus' = r.bus
                  /\ dev' = r.m
        /\ UNCHANGED busFrame

TransferDeselect ==
    \E t \in Callers :
        /\ bus.callers[t].pc = "answered"
        /\ bus' = transfer_deselect(bus, t)
        /\ UNCHANGED <<dev, busFrame>>

NextBus == TransferSelect \/ TransferAddress \/ TransferData \/ TransferDeselect

\* Two callers of one driver object, serialized or not.
SpecBus == InitBus /\ [][NextBus]_vars

(***************************************************************************)
(* Reading the transfer log.                                               *)
(***************************************************************************)
IsWrite(entry) == BitAnd(entry[1], 128) # 0
RegOf(entry) == BitAnd(entry[1], 127)
IsWriteTo(entry, reg) == IsWrite(entry) /\ RegOf(entry) = reg
IsReadOf(entry, reg) == ~IsWrite(entry) /\ RegOf(entry) = reg

\* How many entries of log satisfy Test.
Count(log, Test(_)) == Cardinality({ i \in DOMAIN log : Test(log[i]) })

\* The IRQ flags a received_packet call read: its first transfer.
FlagsRead(log) == log[1][3]

(***************************************************************************)
(* C1.  received_packet returns true exactly when the IRQ-flags value it   *)
(* read has the RxDone bit set, whatever the other bits of that value.     *)
(***************************************************************************)
C1_ReturnsRxDoneBit ==
    (call.op = "received_packet" /\ pc = "idle")
        => ret.val = (BitAnd(FlagsRead(dev.log), IRQ_RX_DONE_MASK) # 0)

\* received_packet has read RxDone together with ValidHeader.
C1_ReadRxDoneWithHeader ==
    /\ call.op = "received_packet" /\ pc = "idle"
    /\ FlagsRead(dev.log) = IRQ_RX_DONE_MASK + IRQ_VALID_HEADER_MASK

(***************************************************************************)
(* C2.  Inside listen, a poll that reports no packet has not read (and     *)
(* cleared) IRQ flags with the RxDone bit set: an RxDone latched during    *)
(* the loop is answered with the payload.                                  *)
(***************************************************************************)
C2_PollNeverDropsRxDone ==
    (call.op = "listen" /\ pc = "listen_check")
        => BitAnd(FlagsRead(dev.log), IRQ_RX_DONE_MASK) = 0

\* A poll of listen has read RxDone with another flag and reported no
\* packet; the flags are cleared.
C2_PollDroppedRxDone ==
    /\ call.op = "listen" /\ pc = "listen_check"
    /\ BitAnd(FlagsRead(dev.log), IRQ_RX_DONE_MASK) # 0
    /\ dev.regs[REG_IRQ_FLAGS] = 0

(***************************************************************************)
(* C3.  Against a chip that never reports RxDone, under a clock that keeps *)
(* advancing: listen returns None only once more than timeout              *)
(* milliseconds have passed since the loop started; a timeout check made   *)
(* after that returns at once; every timeout check follows a               *)
(* received_packet poll; and listen does return.                           *)
(***************************************************************************)
C3_Listening == call.op = "listen" /\ pc \in {"listen_poll", "listen_check"}

C3_ListenTimesOut ==
    /\ []((call.op = "listen" /\ pc = "idle")
            => (ret.none /\ now - start > timeout))
    /\ []((call.op = "listen" /\ pc = "listen_check")
            => (dev.log # <<>> /\ IsReadOf(dev.log[1], REG_IRQ_FLAGS)))
    /\ [][(pc = "listen_check" /\ pc' # "listen_check")
            => IF now - start > timeout
               THEN pc' = "idle" /\ ret'.none
               ELSE pc' = "listen_poll"]_vars
    /\ (C3_Listening ~> (call.op = "listen" /\ pc = "idle" /\ ret.none))

\* listen has returned None one poll turn late: the clock moved between
\* the turn's poll and a check that sent the loop round again.
C3_ReturnedNoneLate ==
    /\ call.op = "listen" /\ pc = "idle" /\ ret.none
    /\ timeout = 1 /\ now - start = timeout + 2

(***************************************************************************)
(* C4.  The number of bytes write(buffer) sends to the FIFO register       *)
(* equals the number it returns.                                           *)
(***************************************************************************)
FifoWrites(log) == Count(log, LAMBDA entry : IsWriteTo(entry, REG_FIFO))

C4_FifoWritesEqualReturn ==
    (call.op = "write" /\ pc = "idle") => FifoWrites(dev.log) = ret.val

\* write was handed more bytes than the packet had room for.
C4_WroteBeyondRoom ==
    /\ call.op = "write" /\ pc = "idle"
    /\ Len(call.buffer) > 255 - pre.regs[REG_PAYLOAD_LENGTH]
    /\ FifoWrites(dev.log) = Len(call.buffer)

(***************************************************************************)
(* C5.  write(buffer) returns min(len(buffer), 255 - currentLength) for    *)
(* the payload length currentLength it found, and leaves the payload       *)
(* length at currentLength plus what it returned; after begin_packet the   *)
(* payload length is the sum of what the writes returned, at most 255.     *)
(***************************************************************************)
C5_WriteReturnAndLength ==
    /\ (call.op = "write" /\ pc = "idle") =>
          LET currentLength == pre.regs[REG_PAYLOAD_LENGTH]
              room == 255 - currentLength
          IN /\ ret.val = IF Len(call.buffer) <= room THEN Len(call.buffer) ELSE room
             /\ dev.regs[REG_PAYLOAD_LENGTH] = currentLength + ret.val
    /\ accepted >= 0 =>
          /\ dev.regs[REG_PAYLOAD_LENGTH] = accepted
          /\ dev.regs[REG_PAYLOAD_LENGTH] <= 255

\* The second write after begin_packet was cut short and filled the packet.
C5_SecondWriteClamped ==
    /\ call.op = "write" /\ pc = "idle"
    /\ accepted = 255 /\ nwrites = 2
    /\ 0 < ret.val /\ ret.val < Len(call.buffer)

(***************************************************************************)
(* C6.  Round trip: when a sender does begin_packet, write(buffer) with    *)
(* at most 255 bytes and end_packet, and the peer in explicit header mode  *)
(* receives the packet, the peer's read_payload returns exactly buffer.    *)
(***************************************************************************)
C6_RoundTrip ==
    (/\ ~peerRet.none
     /\ peerGot.begun
     /\ Len(peerGot.bracket) = 1
     /\ Len(peerGot.bracket[1]) <= 255)
        => peerRet.val = peerGot.bracket[1]

\* The peer has read back a packet of 255 bytes written in one write.
C6_ReadBackFullPacket ==
    /\ ~peerRet.none
    /\ peerGot.begun
    /\ peerGot.bracket = <<Buf(255)>>
    /\ Len(peerRet.val) = 255

(***************************************************************************)
(* C7.  println(message, header, repeat) issues its register writes and    *)
(* IRQ-flags reads in this order: OpMode <- Standby, the header-mode write *)
(* when an override is given that differs from the cache, FifoAddrPtr <-   *)
(* TX base, PayloadLength <- 0, one FIFO write per message byte in message *)
(* order, PayloadLength <- accepted length, then repeat times: OpMode <-   *)
(* Tx, IRQ-flags reads until one has bit 0x08 set, IRQ-flags <- 0x08.  No  *)
(* OpMode <- Tx comes before the payload-length update, and every clearing *)
(* write follows an IRQ-flags read that had bit 0x08 set.                  *)
(***************************************************************************)
W(reg, value) == <<BitOr(reg, 128), value, 0>>

\* The writes and the IRQ-flags reads of a log, in order.
Observed(log) ==
    SelectSeq(log, LAMBDA entry : IsWrite(entry) \/ IsReadOf(entry, REG_IRQ_FLAGS))

TxDoneRead(entry) == IsReadOf(entry, REG_IRQ_FLAGS) /\ BitAnd(entry[3], 8) # 0
TxBusyRead(entry) == IsReadOf(entry, REG_IRQ_FLAGS) /\ BitAnd(entry[3], 8) = 0

\* s from place i on is r rounds of: OpMode <- Tx, IRQ-flags reads with bit
\* 0x08 clear, one IRQ-flags read with it set, IRQ-flags <- 0x08.
RECURSIVE TxRounds(_, _, _)
TxRounds(s, i, r) ==
    IF r = 0 THEN i = Len(s) + 1
    ELSE /\ i <= Len(s)
         /\ s[i] = W(REG_OP_MODE, 131)
         /\ \E j \in (i + 1) .. (Len(s) - 1) :
               /\ \A k \in (i + 1) .. (j - 1) : TxBusyRead(s[k])
               /\ TxDoneRead(s[j])
               /\ s[j + 1] = W(REG_IRQ_FLAGS, 8)
               /\ TxRounds(s, j + 2, r - 1)

\* What println issues up to the payload-length update.
PrintlnHead(message, header, cache, config1) ==
    LET data == IF message.kind = "str" THEN encode(message.data) ELSE message.data
        headerWrite ==
            IF header # "None" /\ header # cache
            THEN <<W(REG_MODEM_CONFIG_1,
                     IF header = "True" THEN BitOr(config1, 1)
                     ELSE BitAnd(config1, 254))>>
            ELSE <<>>
    IN <<W(REG_OP_MODE, 129)>> \o headerWrite
       \o <<W(REG_FIFO_ADDR_PTR, 0), W(REG_PAYLOAD_LENGTH, 0)>>
       \o [i \in 1 .. Len(data) |-> W(REG_FIFO, data[i])]
       \o <<W(REG_PAYLOAD_LENGTH, IF Len(data) <= 255 THEN Len(data) ELSE 255)>>

C7_PrintlnOrder ==
    call.op = "println" =>
        \E obs \in {Observed(dev.log)} :
        \E head \in {PrintlnHead(call.message, call.implicit_header,
                                 pre.implicit_header_mode,
                                 pre.regs[REG_MODEM_CONFIG_1])} :
            /\ Len(obs) >= Len(head)
            /\ SubSeq(obs, 1, Len(head)) = head
            /\ pc = "idle" => TxRounds(obs, Len(head) + 1, call.repeat)
            /\ \A i \in DOMAIN obs :
                  /\ obs[i] = W(REG_OP_MODE, 131) => i > Len(head)
                  /\ IsWriteTo(obs[i], REG_IRQ_FLAGS) =>
                        /\ obs[i] = W(REG_IRQ_FLAGS, 8)
                        /\ i > 1
                        /\ TxDoneRead(obs[i - 1])

\* println has sent a two-byte message twice with a header override that
\* changed the mode, and one of its IRQ-flags reads found TxDone clear.
C7_PrintlnSentTwice ==
    /\ call.op = "println" /\ pc = "idle"
    /\ call.repeat = 2
    /\ call.implicit_header = "True" /\ pre.implicit_header_mode = "False"
    /\ Len(call.message.data) = 2
    /\ Count(dev.log, TxBusyRead) >= 1

(***************************************************************************)
(* C8.  end_packet returns only after an IRQ-flags read with the TxDone    *)
(* bit set: while the chip has not set TxDone the call stays in its wait   *)
(* loop and, after the TX mode write, only reads the IRQ flags; when the   *)
(* chip does set TxDone the call returns.                                  *)
(***************************************************************************)
C8_Waiting == call.op = "end_packet" /\ pc = "tx_wait"

C8_EndPacketWaitsForTxDone ==
    /\ [](C8_Waiting =>
            /\ dev.log[1] = W(REG_OP_MODE, 131)
            /\ \A k \in 2 .. Len(dev.log) : TxBusyRead(dev.log[k]))
    /\ [][(C8_Waiting /\ BitAnd(dev.regs[REG_IRQ_FLAGS], 8) = 0)
            => (pc' = "tx_wait" /\ Count(dev'.log, IsWrite) = 1)]_vars
    /\ [][(C8_Waiting /\ pc' = "idle")
            => (/\ Len(dev'.log) >= 3
                /\ TxDoneRead(dev'.log[Len(dev'.log) - 1])
                /\ dev'.log[Len(dev'.log)] = W(REG_IRQ_FLAGS, 8))]_vars
    /\ (C8_Waiting ~> (call.op = "end_packet" /\ pc = "idle"))

\* end_packet has returned after one read that found TxDone clear and one
\* that found it set.
C8_ReturnedAfterBusyRead ==
    /\ call.op = "end_packet" /\ pc = "idle"
    /\ Len(dev.log) = 4
    /\ TxBusyRead(dev.log[2]) /\ TxDoneRead(dev.log[3])

(***************************************************************************)
(* C9.  The header-mode memo.  As first stated: set_implicit_header(x)     *)
(* called twice in a row issues exactly one write to ModemConfig1 in       *)
(* total.                                                                  *)
(***************************************************************************)
Config1Writes(log) == Count(log, LAMBDA entry : IsWriteTo(entry, REG_MODEM_CONFIG_1))

C9_TwiceWritesOnce ==
    (call.op = "set_implicit_header" /\ again)
        => Config1Writes(prevLog) + Config1Writes(dev.log) = 1

(***************************************************************************)
(* C9, as it holds.  A set_implicit_header call whose argument equals the  *)
(* cached mode makes no bus transfer; a call whose argument differs makes  *)
(* exactly one read and then one write of ModemConfig1; so of two calls in *)
(* a row with the same argument the second makes no transfer, and the two  *)
(* together issue at most one write: one when the cached mode differed     *)
(* before the first call, none when it did not.                            *)
(***************************************************************************)
C9_HeaderMemo ==
    call.op = "set_implicit_header" =>
        /\ PyBool(call.implicit) = pre.implicit_header_mode => dev.log = <<>>
        /\ PyBool(call.implicit) # pre.implicit_header_mode =>
              /\ Len(dev.log) = 2
              /\ IsReadOf(dev.log[1], REG_MODEM_CONFIG_1)
              /\ IsWriteTo(dev.log[2], REG_MODEM_CONFIG_1)
        /\ again =>
              /\ dev.log = <<>>
              /\ Config1Writes(prevLog) + Config1Writes(dev.log) <= 1
              /\ Config1Writes(prevLog) = (IF prevLog = <<>> THEN 0 ELSE 1)

\* Two calls in a row with an argument the cache did not hold: the first
\* read and wrote ModemConfig1, the second made no transfer.
C9_SecondCallSilent ==
    /\ call.op = "set_implicit_header" /\ again
    /\ Len(prevLog) = 2 /\ Config1Writes(prevLog) = 1
    /\ dev.log = <<>>

(***************************************************************************)
(* C10.  The bin index set_signal_bandwidth(b) writes into the top nibble  *)
(* of ModemConfig1 is the index of the smallest table entry that is >= b   *)
(* when b >= 10 (and such an entry exists), int(b) when b < 10, and always *)
(* lies in 0 .. 8.                                                         *)
(***************************************************************************)
BandwidthTable == <<7800, 10400, 15600, 20800, 31250, 41700, 62500, 125000, 250000>>

C10_BinIndex ==
    call.op = "set_signal_bandwidth" =>
        LET b == call.sbw
            index == ShiftRight(dev.regs[REG_MODEM_CONFIG_1], 4)
        IN /\ index \in 0 .. 8
           /\ b < 10 => index = b
           /\ (b >= 10 /\ b <= BandwidthTable[9]) =>
                 /\ BandwidthTable[index + 1] >= b
                 /\ \A i \in 1 .. index : BandwidthTable[i] < b

\* set_signal_bandwidth(9) has written 9 into the top nibble.
C10_WroteIndexNine ==
    /\ call.op = "set_signal_bandwidth" /\ call.sbw = 9
    /\ ShiftRight(dev.regs[REG_MODEM_CONFIG_1], 4) = 9

(***************************************************************************)
(* C11.  For every integer level, set_tx_power(level, output) makes one    *)
(* transfer, a write of PaConfig, with exactly 0x80 + (clamp(level,2,17)   *)
(* - 2) in PA-boost mode and exactly 0x70 + clamp(level,0,14) in RFO mode  *)
(* (the two operands of | share no bit, so | is +); the byte written is    *)
(* within one byte and the call returns normally.                          *)
(***************************************************************************)
Clamp(x, lo, hi) == IF x < lo THEN lo ELSE IF x > hi THEN hi ELSE x

C11_PaConfigValue ==
    call.op = "set_tx_power" =>
        LET expected == IF call.output_pin = PA_OUTPUT_RFO_PIN
                        THEN 112 + Clamp(call.level, 0, 14)
                        ELSE 128 + (Clamp(call.level, 2, 17) - 2)
        IN /\ expected \in Byte
           /\ dev.log = << W(REG_PA_CONFIG, expected) >>
           /\ dev.regs[REG_PA_CONFIG] = expected
           /\ ret = NoValue

\* A PA-boost call with a level above 17 has written 0x8F, and before it
\* an RFO call had written its own value.
C11_BoostLevelClamped ==
    /\ call.op = "set_tx_power" /\ call.output_pin = PA_OUTPUT_PA_BOOST_PIN
    /\ call.level > 17
    /\ dev.regs[REG_PA_CONFIG] = 143
    /\ pre.regs[REG_PA_CONFIG] = 112

(***************************************************************************)
(* C12.  For every frequency f with f + offset in the chip's range (137    *)
(* to 1020 MHz for the SX127x family),                                     *)
(* set_frequency(f) makes three transfers: writes of FrfMsb, FrfMid and    *)
(* FrfLsb in that order, each one byte; the value frf the three registers  *)
(* then hold (most significant first) is floor((f + offset) * 2^19 /       *)
(* 32000000), that is, frf * 32000000 / 2^19 <= f + offset and the         *)
(* difference is less than one step 32000000 / 2^19.  The step is          *)
(* 15625 / 256 Hz, so this is frf * 15625 <= 256 * (f + offset) <          *)
(* (frf + 1) * 15625; with f + offset = q * 15625 + r and d = frf -        *)
(* 256 * q it is d * 15625 <= 256 * r < (d + 1) * 15625, which stays       *)
(* within 32 bits.                                                         *)
(***************************************************************************)
C12_FrfTruncates ==
    (/\ call.op = "set_frequency"
     /\ call.frequency + dev.parameters.frequency_offset
            \in 137000000 .. 1020000000) =>
        LET target == call.frequency + dev.parameters.frequency_offset
            frf == dev.regs[REG_FRF_MSB] * 65536 + dev.regs[REG_FRF_MID] * 256
                   + dev.regs[REG_FRF_LSB]
            d == frf - 256 * (target \div 15625)
            r == target % 15625
        IN /\ Len(dev.log) = 3
           /\ dev.log[1] = W(REG_FRF_MSB, dev.regs[REG_FRF_MSB])
           /\ dev.log[2] = W(REG_FRF_MID, dev.regs[REG_FRF_MID])
           /\ dev.log[3] = W(REG_FRF_LSB, dev.regs[REG_FRF_LSB])
           /\ \A i \in 1 .. 3 : dev.log[i][2] \in Byte
           /\ d * 15625 <= 256 * r
           /\ 256 * r < (d + 1) * 15625

\* A frequency that is no multiple of the step was set with a non-zero
\* offset: the registers hold 0x6C4000, the value of 433000000, after
\* they held another value.
C12_SetBetweenSteps ==
    /\ call.op = "set_frequency" /\ call.frequency = 433000001
    /\ dev.parameters.frequency_offset = 7
    /\ dev.regs[REG_FRF_MSB] = 108 /\ dev.regs[REG_FRF_MID] = 64
    /\ dev.regs[REG_FRF_LSB] = 0
    /\ pre.regs[REG_FRF_MSB] # 108

(***************************************************************************)
(* C13.  The constructor reads the version register 1 to 5 times; it goes  *)
(* on to the configuration (its next transfer writes OpMode<-Sleep) if one *)
(* of these reads returned 0x12, and ends in machine.reset() exactly when  *)
(* none of them did, having then made no transfer but the version reads,   *)
(* so no register write at all.                                            *)
(***************************************************************************)
VersionReads(log) == Count(log, LAMBDA entry : IsReadOf(entry, REG_VERSION))

C13_ProbeThenConfigure ==
    call.op = "__init__" =>
        LET n == VersionReads(dev.log)
            matched == \E i \in 1 .. n : dev.log[i][3] = EXPECTED_VERSION
        IN /\ n \in 1 .. 5
           /\ \A i \in 1 .. n : /\ IsReadOf(dev.log[i], REG_VERSION)
                                 /\ dev.log[i][3] = call.answers[i]
           /\ matched <=> pc # "failed"
           /\ matched =>
                 /\ Len(dev.log) > n
                 /\ dev.log[n + 1] = W(REG_OP_MODE, BitOr(MODE_LONG_RANGE_MODE, MODE_SLEEP))
           /\ ~matched =>
                 /\ Len(dev.log) = n
                 /\ Count(dev.log, IsWrite) = 0
                 /\ \A r \in Regs \ {REG_VERSION} : dev.regs[r] = ChipReset[r]

\* Five reads returned 0 and the constructor ended in machine.reset().
C13_FiveSilentReads ==
    /\ call.op = "__init__" /\ pc = "failed"
    /\ Len(dev.log) = 5
    /\ \A i \in 1 .. 5 : dev.log[i][3] = 0

(***************************************************************************)
(* C14.  After a successful version probe the constructor's register       *)
(* writes are, in this order: OpMode<-Sleep; the frequency registers;      *)
(* the bandwidth field; LNA and ModemConfig3 (LNA boost, AGC); PaConfig;   *)
(* the header mode; the spreading factor registers; the coding rate; the   *)
(* preamble length; the sync word; the CRC bit; the IQ registers;          *)
(* ModemConfig3 again when low data rate applies; the FIFO TX and RX base  *)
(* addresses; OpMode<-Standby last.  So no write between the first and the *)
(* last touches OpMode (the chip is in Sleep for all of them) and the      *)
(* constructor returns with the chip in Standby.                           *)
(***************************************************************************)
WritesOf(log) == SelectSeq(log, IsWrite)

ConfigureOrder(parameters) ==
    <<REG_OP_MODE, REG_FRF_MSB, REG_FRF_MID, REG_FRF_LSB, REG_MODEM_CONFIG_1,
      REG_LNA, REG_MODEM_CONFIG_3, REG_PA_CONFIG, REG_MODEM_CONFIG_1,
      REG_DETECTION_OPTIMIZE, REG_DETECTION_THRESHOLD, REG_MODEM_CONFIG_2,
      REG_MODEM_CONFIG_1, REG_PREAMBLE_MSB, REG_PREAMBLE_LSB, REG_SYNC_WORD,
      REG_MODEM_CONFIG_2, REG_INVERTIQ, REG_INVERTIQ2>>
    \o (IF low_data_rate(parameters.signal_bandwidth, parameters.spreading_factor)
        THEN <<REG_MODEM_CONFIG_3>> ELSE <<>>)
    \o <<REG_FIFO_TX_BASE_ADDR, REG_FIFO_RX_BASE_ADDR, REG_OP_MODE>>

C14_WritesInOrder ==
    LET writes == WritesOf(dev.log)
        n == Len(writes)
    IN /\ pc = "idle"
       /\ [i \in 1 .. n |-> RegOf(writes[i])] = ConfigureOrder(call.parameters)
       /\ writes[1] = W(REG_OP_MODE, BitOr(MODE_LONG_RANGE_MODE, MODE_SLEEP))
       /\ writes[n] = W(REG_OP_MODE, BitOr(MODE_LONG_RANGE_MODE, MODE_STDBY))
       /\ dev.log[Len(dev.log)] = writes[n]
       /\ \A i \in 2 .. n - 1 : RegOf(writes[i]) # REG_OP_MODE
       /\ Mode(dev) = MODE_STDBY

C14_ConfigureOrder ==
    (call.op = "__init__" /\ pc # "failed") => C14_WritesInOrder

\* The constructor was handed signal_bandwidth 0 (bin index 0) and ended in
\* ZeroDivisionError: its last write was the IQ setup, the FIFO base
\* addresses and OpMode<-Standby were never written, the chip is in Sleep.
C14_RaisedInSleep ==
    /\ call.op = "__init__" /\ pc = "raised"
    /\ call.parameters.signal_bandwidth = 0
    /\ IsWriteTo(dev.log[Len(dev.log)], REG_INVERTIQ2)
    /\ Mode(dev) = MODE_SLEEP

(***************************************************************************)
(* C15.  All mode transitions go through Standby: whenever a transfer of   *)
(* the driver writes OpMode and changes the chip's mode, the mode before   *)
(* the write or the mode written is Standby.  The transfers of a step are  *)
(* the log after it (what the step appended, inside end_packet's wait),    *)
(* and the mode before a write is the mode the chip was in when the step   *)
(* began, or the mode the step wrote last.                                 *)
(***************************************************************************)
ModeWrites(log) == SelectSeq(log, LAMBDA entry : IsWriteTo(entry, REG_OP_MODE))

DirectSwitch(before, log) ==
    LET writes == ModeWrites(log)
        ModeAt(i) == IF i = 0 THEN before ELSE BitAnd(writes[i][2], 7)
    IN \E i \in 1 .. Len(writes) :
          /\ ModeAt(i) # ModeAt(i - 1)
          /\ ModeAt(i - 1) # MODE_STDBY
          /\ ModeAt(i) # MODE_STDBY

C15_ThroughStandby ==
    [][\/ ChipStep
       \/ dev' = dev
       \/ ~DirectSwitch(Mode(dev),
                        IF pc = "tx_wait"
                        THEN SubSeq(dev'.log, Len(dev.log) + 1, Len(dev'.log))
                        ELSE dev'.log)]_vars

\* A received_packet call after receive: it read OpMode as RxContinuous
\* (0x85) and then wrote OpMode<-RxSingle (0x86).
C15_ContinuousToSingle ==
    /\ call.op = "received_packet"
    /\ \E i \in DOMAIN dev.log :
          dev.log[i] = <<REG_OP_MODE, 0, BitOr(MODE_LONG_RANGE_MODE, MODE_RX_CONTINUOUS)>>
    /\ dev.log[Len(dev.log)] = W(REG_OP_MODE, BitOr(MODE_LONG_RANGE_MODE, MODE_RX_SINGLE))

(***************************************************************************)
(* C16.  Bit 0x08 of ModemConfig3 follows the configured bandwidth and     *)
(* spreading factor: it is set if and only if 1000 / bandwidth / 2^SF      *)
(* exceeds 16, after construction and after later set_signal_bandwidth and *)
(* set_spreading_factor calls.  Checked after construction for the         *)
(* parameters handed to the constructor, and after every                   *)
(* set_signal_bandwidth(b) with b >= 63, where 1000 / b / 2^SF is below 16 *)
(* whatever the spreading factor is, so the bit must be clear.             *)
(***************************************************************************)
\* 1000 / bw / 2^sf > 16, for bw > 0 and sf >= 0, as 16 * bw * 2^sf < 1000.
DurationExceeds16(bw, sf) == bw < 1000 /\ 16 * bw * Pow2(sf) < 1000

LowDataRateBit(m) == BitAnd(m.regs[REG_MODEM_CONFIG_3], 8) = 8

C16_LdroFollowsConfiguration ==
    /\ (call.op = "__init__" /\ pc = "idle") =>
          (LowDataRateBit(dev) <=>
              DurationExceeds16(call.parameters.signal_bandwidth,
                                call.parameters.spreading_factor))
    /\ (call.op = "set_signal_bandwidth" /\ call.sbw >= 63) => ~LowDataRateBit(dev)

\* The constructor set the bit for bandwidth index 1 and spreading factor
\* 5; set_signal_bandwidth(125000) then returned with the bit still set.
C16_StaleLowDataRate ==
    /\ call.op = "set_signal_bandwidth" /\ call.sbw = 125000
    /\ dev.parameters.signal_bandwidth = 1 /\ dev.parameters.spreading_factor = 5
    /\ LowDataRateBit(dev)
    /\ ~\E i \in DOMAIN dev.log : IsWriteTo(dev.log[i], REG_MODEM_CONFIG_3)

(***************************************************************************)
(* C17.  packet_rssi(True) returns the RSSI register value minus 157 and   *)
(* packet_rssi(False) that value minus 164; packet_snr() returns the SNR   *)
(* register value taken as a signed 8-bit number, in quarters of a dB;     *)
(* neither call writes a register.                                         *)
(***************************************************************************)
Signed8(byte) == IF byte >= 128 THEN byte - ByteRange ELSE byte

C17_SignalReadings ==
    /\ call.op = "packet_rssi" =>
          /\ ret = Value(pre.regs[REG_PKT_RSSI_VALUE]
                            - (IF call.high_frequency THEN 157 ELSE 164))
          /\ Count(dev.log, IsWrite) = 0
    /\ call.op = "packet_snr" =>
          /\ ret = Value(Signed8(pre.regs[REG_PKT_SNR_VALUE]))
          /\ Count(dev.log, IsWrite) = 0

\* The SNR register held 0xFF, a quarter of a dB below zero, and packet_snr
\* returned 255 quarters, 63.75.
C17_NegativeSnrReadPositive ==
    /\ call.op = "packet_snr"
    /\ pre.regs[REG_PKT_SNR_VALUE] = 255
    /\ dev.log = << <<REG_PKT_SNR_VALUE, 0, 255>> >>
    /\ ret = Value(255)

(***************************************************************************)
(* C18.  For every integer sf, set_spreading_factor(sf) makes four         *)
(* transfers: it writes DetectionOptimize and DetectionThreshold, 0xC5 and *)
(* 0x0C exactly when clamp(sf,6,12) is 6 and 0xC3 and 0x0A otherwise,      *)
(* reads ModemConfig2, and writes it back with clamp(sf,6,12) in the top   *)
(* nibble and the low nibble as read; it returns normally.                 *)
(***************************************************************************)
C18_SpreadingFactorWrites ==
    call.op = "set_spreading_factor" =>
        LET c == Clamp(call.sf, 6, 12)
            before == pre.regs[REG_MODEM_CONFIG_2]
        IN /\ dev.log =
                << W(REG_DETECTION_OPTIMIZE, IF c = 6 THEN 197 ELSE 195),
                   W(REG_DETECTION_THRESHOLD, IF c = 6 THEN 12 ELSE 10),
                   <<REG_MODEM_CONFIG_2, 0, before>>,
                   W(REG_MODEM_CONFIG_2, 16 * c + (before % 16)) >>
           /\ dev.regs[REG_MODEM_CONFIG_2] \div 16 = c
           /\ dev.regs[REG_MODEM_CONFIG_2] % 16 = before % 16
           /\ ret = NoValue

\* set_spreading_factor(5) after spreading factor 12 with the CRC bit
\* cleared: the chip holds 6 with the SF6 detection values, and the low
\* nibble is still 0.
C18_ClampedToSix ==
    /\ call.op = "set_spreading_factor" /\ call.sf = 5
    /\ pre.regs[REG_MODEM_CONFIG_2] = 192
    /\ dev.regs[REG_MODEM_CONFIG_2] = 96
    /\ dev.regs[REG_DETECTION_OPTIMIZE] = 197
    /\ dev.regs[REG_DETECTION_THRESHOLD] = 12

(***************************************************************************)
(* C19.  Each setter changes only its own field of the shared registers.   *)
(* In ModemConfig1 set_signal_bandwidth changes only bits 7..4 (to the bin *)
(* index of an in-range request), set_coding_rate only bits 3..1 (to       *)
(* clamp(denominator,5,8) - 4) and set_implicit_header only bit 0 (to the  *)
(* requested mode); in ModemConfig2 set_spreading_factor changes only bits *)
(* 7..4 (to clamp(sf,6,12)) and enable_crc only bit 2 (to the requested    *)
(* setting); none of them changes the other register.  So after any        *)
(* sequence of these calls every field holds what the last call to its own *)
(* setter put there.                                                       *)
(***************************************************************************)
\* Bits hi..lo of a byte.
Field(byte, hi, lo) == (byte \div Pow2(lo)) % Pow2(hi - lo + 1)

\* The byte with bits hi..lo cleared.
Outside(byte, hi, lo) == byte - Field(byte, hi, lo) * Pow2(lo)

\* Only bits hi..lo of register reg differ from before the call, and they
\* hold value; register other is as before the call.
OnlyField(reg, hi, lo, value, other) ==
    /\ Field(dev.regs[reg], hi, lo) = value
    /\ Outside(dev.regs[reg], hi, lo) = Outside(pre.regs[reg], hi, lo)
    /\ dev.regs[other] = pre.regs[other]

C19_OwnFieldOnly ==
    /\ call.op = "set_signal_bandwidth" =>
          /\ \E index \in 0 .. 15 :
                OnlyField(REG_MODEM_CONFIG_1, 7, 4, index, REG_MODEM_CONFIG_2)
          /\ call.sbw \in 0 .. 8 =>
                Field(dev.regs[REG_MODEM_CONFIG_1], 7, 4) = call.sbw
          /\ call.sbw \in 10 .. BandwidthTable[9] =>
                LET index == Field(dev.regs[REG_MODEM_CONFIG_1], 7, 4)
                IN /\ index \in 0 .. 8
                   /\ BandwidthTable[index + 1] >= call.sbw
                   /\ \A i \in 1 .. index : BandwidthTable[i] < call.sbw
    /\ call.op = "set_coding_rate" =>
          OnlyField(REG_MODEM_CONFIG_1, 3, 1, Clamp(call.denominator, 5, 8) - 4,
                    REG_MODEM_CONFIG_2)
    /\ call.op = "set_implicit_header" =>
          OnlyField(REG_MODEM_CONFIG_1, 0, 0, IF call.implicit THEN 1 ELSE 0,
                    REG_MODEM_CONFIG_2)
    /\ call.op = "set_spreading_factor" =>
          OnlyField(REG_MODEM_CONFIG_2, 7, 4, Clamp(call.sf, 6, 12),
                    REG_MODEM_CONFIG_1)
    /\ call.op = "enable_crc" =>
          OnlyField(REG_MODEM_CONFIG_2, 2, 2, IF call.enable THEN 1 ELSE 0,
                    REG_MODEM_CONFIG_1)

\* set_coding_rate(8) on a register holding bandwidth index 8, coding rate
\* 1 and implicit header: 0x83 became 0x89.
C19_CodingRateBetweenFields ==
    /\ call.op = "set_coding_rate" /\ call.denominator = 8
    /\ pre.regs[REG_MODEM_CONFIG_1] = 131
    /\ dev.regs[REG_MODEM_CONFIG_1] = 137

(***************************************************************************)
(* C20.  Lazy re-arm.  A received_packet call that returns false reads     *)
(* OpMode once, as its last read; when that read is not RxSingle (0x86)    *)
(* the call ends with the writes FifoAddrPtr<-RX base and OpMode<-RxSingle *)
(* in that order, and when it is RxSingle the call ends with the read: it  *)
(* writes neither register.  So after a false return the chip was told, by *)
(* this call or before it, to be in RxSingle; this holds for               *)
(* received_packet right after receive, listen's first poll, where the     *)
(* read is RxContinuous.  A call that returns true neither reads OpMode    *)
(* nor writes FifoAddrPtr or OpMode.                                       *)
(***************************************************************************)
RxSingle == BitOr(MODE_LONG_RANGE_MODE, MODE_RX_SINGLE)

RearmWrites(log) ==
    SelectSeq(log, LAMBDA entry : IsWriteTo(entry, REG_FIFO_ADDR_PTR)
                                    \/ IsWriteTo(entry, REG_OP_MODE))

C20_LazyRearm ==
    call.op = "received_packet" =>
        LET modeReads == { i \in DOMAIN dev.log : IsReadOf(dev.log[i], REG_OP_MODE) }
        IN /\ ret = Value(TRUE) =>
                 /\ modeReads = {}
                 /\ RearmWrites(dev.log) = <<>>
           /\ ret = Value(FALSE) =>
                 \E i \in modeReads :
                    /\ modeReads = {i}
                    /\ dev.log[i][3] = pre.regs[REG_OP_MODE]
                    /\ dev.log[i][3] # RxSingle =>
                          /\ Len(dev.log) = i + 2
                          /\ RearmWrites(dev.log) =
                                << W(REG_FIFO_ADDR_PTR, FifoRxBaseAddr),
                                   W(REG_OP_MODE, RxSingle) >>
                          /\ dev.log[i + 1] = W(REG_FIFO_ADDR_PTR, FifoRxBaseAddr)
                    /\ dev.log[i][3] = RxSingle =>
                          /\ Len(dev.log) = i
                          /\ RearmWrites(dev.log) = <<>>

\* Two received_packet calls in a row returned false: the first wrote
\* FifoAddrPtr and OpMode<-RxSingle, the second read OpMode as RxSingle and
\* wrote neither.
C20_SecondPollSilent ==
    /\ call.op = "received_packet" /\ again /\ ret = Value(FALSE)
    /\ Len(RearmWrites(prevLog)) = 2
    /\ dev.log[Len(dev.log)] = <<REG_OP_MODE, 0, RxSingle>>
    /\ RearmWrites(dev.log) = <<>>

(***************************************************************************)
(* C21.  read_payload reads FifoRxCurrent and writes the value read to     *)
(* FifoAddrPtr, then reads the length n from the payload-length register   *)
(* when the cached header mode is implicit and from RxNbBytes otherwise,   *)
(* then makes exactly n reads of the FIFO register and returns the n bytes *)
(* read, in read order; the write of FifoAddrPtr is its only write.        *)
(***************************************************************************)
C21_ReadPayloadTransfers ==
    call.op = "read_payload" =>
        LET current == pre.regs[REG_FIFO_RX_CURRENT_ADDR]
            lengthReg == IF pre.implicit_header_mode = "True"
                         THEN REG_PAYLOAD_LENGTH ELSE REG_RX_NB_BYTES
            n == pre.regs[lengthReg]
        IN /\ Len(dev.log) = 3 + n
           /\ dev.log[1] = <<REG_FIFO_RX_CURRENT_ADDR, 0, current>>
           /\ dev.log[2] = W(REG_FIFO_ADDR_PTR, current)
           /\ dev.log[3] = <<lengthReg, 0, n>>
           /\ \A i \in 1 .. n : /\ IsReadOf(dev.log[3 + i], REG_FIFO)
                                 /\ dev.log[3 + i][2] = 0
           /\ ret = Value([i \in 1 .. n |-> dev.log[3 + i][3]])
           /\ Count(dev.log, IsWrite) = 1

\* In implicit header mode, with payload length 2 set by receive(2) and a
\* packet of three bytes in the FIFO, read_payload read the payload-length
\* register and returned the first two bytes.
C21_ImplicitLengthUsed ==
    /\ call.op = "read_payload"
    /\ pre.implicit_header_mode = "True"
    /\ pre.regs[REG_RX_NB_BYTES] = 3
    /\ dev.log[3] = <<REG_PAYLOAD_LENGTH, 0, 2>>
    /\ ret = Value(<<51, 68>>)


(***************************************************************************)
(* C22  Chip-select frames every register transaction; the framing holds   *)
(*      for serialized callers only.                                       *)
(***************************************************************************)
\* The callers that are inside transfer.
InFlight == {t \in Callers : bus.callers[t].pc # "idle"}

\* C22: while the callers are serialized, at most one transaction is in
\* flight, chip-select is low exactly while one is, every byte on the bus
\* was clocked with chip-select low, the bytes come in pairs of one caller
\* (the address byte, its high bit set exactly for a write, then the data
\* byte), and the pair does to the chip and answers what one register
\* access does.
C22_FramedTransfers ==
    bus.serialized =>
        /\ Cardinality(InFlight) <= 1
        /\ (bus.ss = 0) <=> (InFlight # {})
        /\ \A i \in DOMAIN bus.wire :
              /\ bus.wire[i].ss = 0
              /\ i % 2 = 1 =>
                    /\ bus.wire[i].kind = "address"
                    /\ (BitAnd(bus.wire[i].byte, 128) # 0)
                          <=> (bus.wire[i].op = "write_register")
              /\ i % 2 = 0 =>
                    /\ bus.wire[i].kind = "data"
                    /\ bus.wire[i].caller = bus.wire[i - 1].caller
        /\ \A t \in Callers :
              /\ bus.callers[t].pc = "selected" => Len(bus.wire) % 2 = 0
              /\ bus.callers[t].pc = "addressed" => Len(bus.wire) % 2 = 1
              /\ bus.callers[t].pc = "answered" =>
                    /\ Len(bus.wire) % 2 = 0
                    /\ dev = bus.callers[t].expect.val.m
                    /\ bus.callers[t].response = bus.callers[t].expect.val.ret

\* Two callers that nothing serializes: the second address byte follows
\* the first before its data byte, and the first caller's read returns
\* something else than the register it asked for.
C22_PhasesInterleave ==
    /\ ~bus.serialized
    /\ \E i \in 1 .. Len(bus.wire) - 1 :
          /\ bus.wire[i].kind = "address"
          /\ bus.wire[i + 1].kind = "address"
          /\ bus.wire[i].caller # bus.wire[i + 1].caller
    /\ \E t \in Callers :
          /\ bus.callers[t].pc = "answered"
          /\ bus.callers[t].op = "read_register"
          /\ bus.callers[t].response # bus.callers[t].expect.val.ret


(***************************************************************************)
(* C23  The cached header mode equals bit 0 of ModemConfig1.               *)
(***************************************************************************)
\* Bit 0 of ModemConfig1 as the cache m.implicit_header_mode describes it.
CachedBit(m) == IF m.implicit_header_mode = "True" THEN 1 ELSE 0

\* C23: after every call the cached header mode is True or False and equals
\* bit 0 of ModemConfig1, every write of the call to ModemConfig1 carries
\* the cached mode in bit 0, and set_signal_bandwidth and set_coding_rate
\* leave the cache and bit 0 as they found them.
C23_CacheCoherent ==
    /\ dev.implicit_header_mode \in {"True", "False"}
    /\ BitAnd(dev.regs[REG_MODEM_CONFIG_1], 1) = CachedBit(dev)
    /\ \A i \in DOMAIN dev.log :
          IsWriteTo(dev.log[i], REG_MODEM_CONFIG_1) =>
              BitAnd(dev.log[i][2], 1) = CachedBit(dev)
    /\ call.op \in {"set_signal_bandwidth", "set_coding_rate"} =>
          /\ dev.implicit_header_mode = pre.implicit_header_mode
          /\ \A i \in DOMAIN dev.log :
                IsWriteTo(dev.log[i], REG_MODEM_CONFIG_1) =>
                    BitAnd(dev.log[i][2], 1) = BitAnd(pre.regs[REG_MODEM_CONFIG_1], 1)

\* set_signal_bandwidth rewrote ModemConfig1 in implicit header mode and
\* bit 0 is still set.
C23_BandwidthKeepsImplicit ==
    /\ call.op = "set_signal_bandwidth"
    /\ pre.implicit_header_mode = "True"
    /\ dev.implicit_header_mode = "True"
    /\ Count(dev.log, LAMBDA e : IsWriteTo(e, REG_MODEM_CONFIG_1)) = 1
    /\ dev.regs[REG_MODEM_CONFIG_1] # pre.regs[REG_MODEM_CONFIG_1]
    /\ BitAnd(dev.regs[REG_MODEM_CONFIG_1], 1) = 1


(***************************************************************************)
(* C24  The header mode follows the last receive-side call.                *)
(***************************************************************************)
\* C24: after received_packet(size) the cache and bit 0 of ModemConfig1 say
\* implicit exactly when size > 0; received_packet(0) right after
\* receive(n), n > 0, leaves explicit header mode and the payload-length
\* register at n; and read_payload right after received_packet(0) reads
\* its length from RxNbBytes and returns that many bytes.
C24_LastCallDecides ==
    /\ [](call.op = "received_packet" =>
             /\ dev.implicit_header_mode = PyBool(call.size > 0)
             /\ BitAnd(dev.regs[REG_MODEM_CONFIG_1], 1)
                    = (IF call.size > 0 THEN 1 ELSE 0))
    /\ [][/\ (/\ call.op = "receive" /\ call.size > 0
              /\ call'.op = "received_packet" /\ call'.size = 0)
             => /\ dev.implicit_header_mode = "True"
                /\ dev'.implicit_header_mode = "False"
                /\ BitAnd(dev'.regs[REG_MODEM_CONFIG_1], 1) = 0
                /\ dev'.regs[REG_PAYLOAD_LENGTH] = call.size
          /\ (/\ call.op = "received_packet" /\ call.size = 0
              /\ call'.op = "read_payload")
             => /\ dev'.log[3] = <<REG_RX_NB_BYTES, 0, dev.regs[REG_RX_NB_BYTES]>>
                /\ Count(dev'.log, LAMBDA e : IsReadOf(e, REG_PAYLOAD_LENGTH)) = 0
                /\ Len(ret'.val) = dev.regs[REG_RX_NB_BYTES]]_vars

\* receive(2), a packet of three bytes, received_packet(), read_payload:
\* the payload-length register still holds 2 and all three bytes come back.
C24_ExplicitAfterSizedReceive ==
    /\ call.op = "read_payload"
    /\ pre.implicit_header_mode = "False"
    /\ pre.regs[REG_PAYLOAD_LENGTH] = 2
    /\ pre.regs[REG_RX_NB_BYTES] = 3
    /\ dev.log[3] = <<REG_RX_NB_BYTES, 0, 3>>
    /\ ret = Value(<<51, 68, 85>>)

========================================================================
